---- MODULE Spec2Model ----
(***************************************************************************)
(* Model of the sampling LSM tree (include/lsm/LsmTree.h) with its         *)
(* memtable (MemTable.h), in-memory runs (InMemRun.h) and memory levels    *)
(* (MemoryLevel.h), tiering policy (LSM_LEVELING = false).                 *)
(*                                                                         *)
(* Levels and runs are TLA+ sequences, so level_index i of the code is     *)
(* element i+1 of `levels' and run index j is element j+1 of a level.      *)
(***************************************************************************)
EXTENDS Integers, Sequences, FiniteSets, TLC

\* ------------------------------------------------------------------------
\* Bounds of the model
\* ------------------------------------------------------------------------
MaxKey == 2
MaxVal == 1
MemCap == 2
TsCap == 1
ScaleFactor == 2
TauNum == 1
TauDen == 4
MaxAppends == 7
MaxSampleAppends == 5
MaxK == 2
MaxMemOps == 5
MaxPersistAppends == 7
MaxDeleteAppends == 7
MaxIsamKey == 3
PageRecs == 2
MaxLeafPages == 3
MaxDeepKey == 1
MaxDeepAppends == 21
MaxDeepTs == 3
MaxPolicyAppends == 13
MaxLegalKey == 6
MaxLegalAppends == 9
MaxLegalTs == 3
MaxAttempts == 4
MaxWaitAppends == 3
PnumBits == 4
inmem_isam_fanout == 2
inmem_isam_leaf_fanout == 2
MaxIndexRecs == 9
NumThreads == 2
ConcCap == 2
MaxConcCalls == 4
MaxRunCap == 3
MaxLevelRunLen == 2
MaxLevelRecords == 4
MaxLevelOps == 4

Keys == 1..MaxKey
Vals == 1..MaxVal
KV == Keys \X Vals

\* the keys of a workload that inserts every record once
LegalKeys == 1..MaxLegalKey

\* the records a history keeps a count of
HistKV == (Keys \cup LegalKeys) \X Vals

\* ------------------------------------------------------------------------
\* Records.  header bit 0 is the tombstone bit, bit 1 the delete tag; in the
\* memtable the bits from 2 upwards hold the insertion slot.
\* ------------------------------------------------------------------------
Rec(k, v, h) == [key |-> k, value |-> v, header |-> h]

is_tombstone(r) == r.header % 2 = 1

get_delete_status(r) == (r.header \div 2) % 2 = 1

\* record_t::match(other): equality is (key, value)
match(a, b) == a.key = b.key /\ a.value = b.value

\* record_t::match(key, val, is_tombstone)
record_match(r, k, v, ts) == r.key = k /\ r.value = v /\ (is_tombstone(r) = ts)

\* record_t::lt(key, val)
lt(r, k, v) == r.key < k \/ (r.key = k /\ r.value < v)

\* header written by the memtable for slot pos
layout_memtable_record(k, v, ts, pos) == Rec(k, v, pos * 4 + (IF ts THEN 1 ELSE 0))

\* comparison used by MemTable::sorted_output: key, then value, then header
memtable_record_cmp(a, b) ==
    \/ a.key < b.key
    \/ a.key = b.key /\ a.value < b.value
    \/ a.key = b.key /\ a.value = b.value /\ a.header < b.header

\* The contents an uninitialised record slot may hold
Garbage == {Rec(k, v, h) : k \in Keys, v \in Vals, h \in 0..3}

\* ------------------------------------------------------------------------
\* MemTable (single-threaded use through LSMTree)
\* ------------------------------------------------------------------------
EmptyMemTable == [data |-> <<>>, tail |-> 0, tscnt |-> 0, filter |-> {}]

get_record_count(m) == Len(m.data)

\* is_full that already reports the memtable full below its last free slot
is_full_early(m) == get_record_count(m) + 1 >= MemCap

is_full(m) == get_record_count(m) = MemCap

\* try_advance_tail without the test against the end of the buffer
try_advance_tail_unbounded(m) == m.tail

\* MemTable::try_advance_tail: fetch_add, then the bound test; -1 on failure
try_advance_tail(m) == IF m.tail < MemCap THEN m.tail ELSE -1

\* MemTable::append; yields the new memtable and the return value
MemTable_append(m, k, v, ts) ==
    IF ts /\ m.tscnt + 1 > TsCap
    THEN [mt |-> m, ret |-> 0]
    ELSE IF try_advance_tail(m) = -1
         THEN [mt |-> [m EXCEPT !.tail = m.tail + 1], ret |-> 0]
         ELSE [mt |-> [data |-> Append(m.data,
                                  layout_memtable_record(k, v, ts, try_advance_tail(m))),
                       tail |-> m.tail + 1,
                       tscnt |-> IF ts THEN m.tscnt + 1 ELSE m.tscnt,
                       filter |-> IF ts THEN m.filter \cup {k} ELSE m.filter],
               ret |-> 1]

\* MemTable::truncate that leaves the counters and the tail as they are
truncate_keep(m) == m

\* MemTable::truncate that does not clear the tombstone filter
truncate_keep_filter(m) == [EmptyMemTable EXCEPT !.filter = m.filter]

\* MemTable::truncate
truncate(m) == EmptyMemTable

\* MemTable::check_tombstone: filter, then scan of the slots below the tail
MemTable_check_tombstone(m, k, v) ==
    /\ k \in m.filter
    /\ \E i \in 1..Len(m.data) : i <= m.tail /\ record_match(m.data[i], k, v, TRUE)

\* insertion of r into the sorted sequence s
RECURSIVE InsertSorted(_, _)
InsertSorted(s, r) ==
    IF s = <<>> THEN <<r>>
    ELSE IF memtable_record_cmp(r, Head(s)) THEN <<r>> \o s
         ELSE <<Head(s)>> \o InsertSorted(Tail(s), r)

RECURSIVE SortRecords(_)
SortRecords(s) == IF s = <<>> THEN <<>> ELSE InsertSorted(SortRecords(Tail(s)), Head(s))

\* sorted_output that hands out the buffer in insertion order
sorted_output_unsorted(m) == m.data

\* MemTable::sorted_output
sorted_output(m) == SortRecords(m.data)

\* ------------------------------------------------------------------------
\* InMemRun
\* ------------------------------------------------------------------------
EmptyRun == [data |-> <<>>, tscnt |-> 0, bf |-> {}, canc |-> 0]

\* body of the loop of InMemRun(MemTable*, BloomFilter*) over the sorted output
RECURSIVE FlushLoop(_, _, _)
FlushLoop(s, base, acc) ==
    IF base > Len(s) THEN acc
    ELSE IF /\ ~is_tombstone(s[base])
            /\ base + 1 <= Len(s)
            /\ match(s[base], s[base + 1])
            /\ is_tombstone(s[base + 1])
         THEN FlushLoop(s, base + 2, [acc EXCEPT !.canc = acc.canc + 1])
         ELSE LET r == Rec(s[base].key, s[base].value, s[base].header % 2)
              IN FlushLoop(s, base + 1,
                    [data |-> Append(acc.data, r),
                     tscnt |-> IF is_tombstone(r) THEN acc.tscnt + 1 ELSE acc.tscnt,
                     bf |-> IF is_tombstone(r) THEN acc.bf \cup {r.key} ELSE acc.bf,
                     canc |-> acc.canc])

\* a flush that leaves the bloom filter of the run empty
InMemRun_from_memtable_no_filter(m) ==
    [FlushLoop(sorted_output(m), 1, EmptyRun) EXCEPT !.bf = {}]

\* InMemRun(MemTable*, BloomFilter*)
InMemRun_from_memtable(m) == FlushLoop(sorted_output(m), 1, EmptyRun)

\* the record a cursor of run i points at; a run without records has an
\* unwritten buffer, whose first slot holds g
CursorRec(runs, pos, i, g) ==
    IF Len(runs[i].data) = 0 THEN g ELSE runs[i].data[pos[i]]

\* PriorityQueue order: record order, ties by version
heap_cmp(runs, pos, g, a, b) ==
    LET ra == CursorRec(runs, pos, a, g)
        rb == CursorRec(runs, pos, b, g)
    IN \/ lt(ra, rb.key, rb.value)
       \/ match(ra, rb) /\ a < b

\* PriorityQueue::peek(depth) for depth 0 and 1
pq_peek(runs, pos, g, pq) ==
    CHOOSE a \in pq : \A b \in pq \ {a} : heap_cmp(runs, pos, g, a, b)

\* advance_cursor: TRUE when the cursor still points at a record
advance_cursor(runs, pos, i) == pos[i] + 1 <= Len(runs[i].data)

\* body of the merge loop of InMemRun(InMemRun**, size_t, BloomFilter*)
RECURSIVE MergeLoop(_, _, _, _, _)
MergeLoop(runs, g, pos, pq, acc) ==
    IF pq = {} THEN acc
    ELSE LET now == pq_peek(runs, pos, g, pq)
             hasNext == Cardinality(pq) > 1
             next == IF hasNext THEN pq_peek(runs, pos, g, pq \ {now}) ELSE now
             nowRec == CursorRec(runs, pos, now, g)
             nextRec == CursorRec(runs, pos, next, g)
         IN IF /\ ~is_tombstone(nowRec)
               /\ hasNext
               /\ match(nowRec, nextRec)
               /\ is_tombstone(nextRec)
            THEN MergeLoop(runs, g,
                    [pos EXCEPT ![now] = @ + 1, ![next] = @ + 1],
                    (pq \ {now, next})
                       \cup (IF advance_cursor(runs, pos, now) THEN {now} ELSE {})
                       \cup (IF advance_cursor(runs, pos, next) THEN {next} ELSE {}),
                    [acc EXCEPT !.canc = acc.canc + 1])
            ELSE MergeLoop(runs, g,
                    [pos EXCEPT ![now] = @ + 1],
                    (pq \ {now})
                       \cup (IF advance_cursor(runs, pos, now) THEN {now} ELSE {}),
                    [data |-> Append(acc.data, nowRec),
                     tscnt |-> IF is_tombstone(nowRec) THEN acc.tscnt + 1 ELSE acc.tscnt,
                     bf |-> IF is_tombstone(nowRec) THEN acc.bf \cup {nowRec.key} ELSE acc.bf,
                     canc |-> acc.canc])

\* a merge that pushes only the cursor of the first run on the heap
InMemRun_from_first_run(runs, g) ==
    MergeLoop(runs, g, [i \in 1..Len(runs) |-> 1], {1}, EmptyRun)

\* InMemRun(InMemRun**, size_t, BloomFilter*): every run is pushed on the heap
InMemRun_from_runs(runs, g) ==
    MergeLoop(runs, g, [i \in 1..Len(runs) |-> 1], 1..Len(runs), EmptyRun)

\* ------------------------------------------------------------------------
\* MemoryLevel (a sequence of runs, oldest first)
\* ------------------------------------------------------------------------
StoreRun(r) == [data |-> r.data, tscnt |-> r.tscnt, bf |-> r.bf]

get_run_count(l) == Len(l)

\* MemoryLevel::get_record_cnt
RECURSIVE get_record_cnt(_)
get_record_cnt(l) ==
    IF l = <<>> THEN 0 ELSE Len(Head(l).data) + get_record_cnt(Tail(l))

\* MemoryLevel::get_tombstone_count
RECURSIVE get_tombstone_count(_)
get_tombstone_count(l) ==
    IF l = <<>> THEN 0 ELSE Head(l).tscnt + get_tombstone_count(Tail(l))

\* ------------------------------------------------------------------------
\* LSMTree compaction.  A tree value T carries the level vector lv, the
\* record g an unwritten run buffer holds, the number canc of cancelled
\* record/tombstone pairs, the set asrt of assertions that failed and the
\* log of the calls made, in order.
\* ------------------------------------------------------------------------
\* the run counts of the levels
RunCounts(lv) == [i \in 1..Len(lv) |-> Len(lv[i])]

\* the log entry of a call with arguments a and b on the levels lv
Call(name, a, b, lv) == [ev |-> name, a |-> a, b |-> b, rc |-> RunCounts(lv)]

RECURSIVE Pow(_, _)
Pow(b, e) == IF e = 0 THEN 1 ELSE b * Pow(b, e - 1)

calc_level_record_capacity(idx) == MemCap * Pow(ScaleFactor, idx + 1)

\* ts_prop > max_tombstone_prop, with max_tombstone_prop = TauNum / TauDen
OverTombstoneMax(l, idx) ==
    get_tombstone_count(l) * TauDen > TauNum * calc_level_record_capacity(idx)

\* can_merge_with that lets a level with exactly the run cap absorb
can_merge_with_lax(T, idx, incoming_rec_cnt) ==
    IF idx >= Len(T.lv) THEN FALSE
    ELSE get_run_count(T.lv[idx + 1]) <= ScaleFactor

\* LSMTree::can_merge_with, tiering branch
can_merge_with(T, idx, incoming_rec_cnt) ==
    IF idx >= Len(T.lv) THEN FALSE
    ELSE get_run_count(T.lv[idx + 1]) < ScaleFactor

\* can_merge_with that does not count the incoming records
can_merge_with_leveling_lax(lv, idx, incoming_rec_cnt) ==
    IF idx >= Len(lv) THEN FALSE
    ELSE get_record_cnt(lv[idx + 1]) <= calc_level_record_capacity(idx)

\* LSMTree::can_merge_with, leveling branch
can_merge_with_leveling(lv, idx, incoming_rec_cnt) ==
    IF idx >= Len(lv) THEN FALSE
    ELSE get_record_cnt(lv[idx + 1]) + incoming_rec_cnt <= calc_level_record_capacity(idx)

\* the loop of LSMTree::find_mergable_level with the leveling branch of
\* can_merge_with: the incoming count is that of the level before i
RECURSIVE FindLoopLeveling(_, _, _)
FindLoopLeveling(lv, i, incoming_rec_cnt) ==
    IF i > Len(lv) - 1 THEN -1
    ELSE IF can_merge_with_leveling(lv, i, incoming_rec_cnt) THEN i
    ELSE FindLoopLeveling(lv, i + 1, get_record_cnt(lv[i + 1]))

\* LSMTree::find_mergable_level under leveling
find_mergable_level_leveling(lv, idx) ==
    IF idx = 0 /\ Len(lv) = 0 THEN -1
    ELSE FindLoopLeveling(lv, idx + 1, get_record_cnt(lv[idx + 1]))

\* find_mergable_level that takes the deepest level that can absorb
find_mergable_level_deepest(T, idx) ==
    IF idx = 0 /\ Len(T.lv) = 0 THEN -1
    ELSE LET ok == {i \in (idx + 1)..(Len(T.lv) - 1) :
                       can_merge_with(T, i, get_record_cnt(T.lv[i]))}
         IN IF ok = {} THEN -1 ELSE CHOOSE i \in ok : \A j \in ok : i >= j

\* LSMTree::find_mergable_level
find_mergable_level(T, idx) ==
    IF idx = 0 /\ Len(T.lv) = 0 THEN -1
    ELSE LET ok == {i \in (idx + 1)..(Len(T.lv) - 1) :
                       can_merge_with(T, i, get_record_cnt(T.lv[i]))}
         IN IF ok = {} THEN -1 ELSE CHOOSE i \in ok : \A j \in ok : i <= j

\* LSMTree::grow
grow(T) ==
    LET new_idx == Len(T.lv)
        bad == /\ new_idx > 0
               /\ \/ T.lv[new_idx] = <<>>
                  \/ T.lv[new_idx][1].tscnt # 0
    IN [T EXCEPT !.lv = Append(T.lv, <<>>),
                 !.asrt = IF bad THEN @ \cup {"grow"} ELSE @,
                 !.log = Append(@, Call("grow", new_idx, 0, T.lv))]

\* MemoryLevel::append_merged_runs, as called by LSMTree::merge_levels
merge_levels(T, base_level, incoming_level) ==
    LET bad == ~(get_run_count(T.lv[base_level + 1]) < ScaleFactor)
        Store(run) ==
            [T EXCEPT !.lv = [@ EXCEPT ![base_level + 1] = Append(@, StoreRun(run)),
                                      ![incoming_level + 1] = <<>>],
                      !.canc = @ + run.canc,
                      !.asrt = IF bad THEN @ \cup {"append_merged_runs"} ELSE @,
                      !.log = Append(@, Call("merge_levels", base_level, incoming_level, T.lv))]
    IN Store(InMemRun_from_runs(T.lv[incoming_level + 1], T.g))

RECURSIVE merge_down(_, _)
RECURSIVE enforce_tombstone_maximum(_, _)
RECURSIVE MergeDownLoop(_, _, _)

\* a loop that merges the pairs and leaves the tombstone maximum alone
MergeDownLoop_no_enforce(T, i, idx) ==
    IF i <= idx THEN T
    ELSE MergeDownLoop(merge_levels(T, i, i - 1), i - 1, idx)

\* the loop of LSMTree::merge_down
MergeDownLoop(T, i, idx) ==
    IF i <= idx THEN T
    ELSE MergeDownLoop(enforce_tombstone_maximum(merge_levels(T, i, i - 1), i),
                       i - 1, idx)

\* LSMTree::merge_down
merge_down(T, idx) ==
    LET Return(found, T2) ==
            [T2 EXCEPT !.log = Append(@, Call("return", idx, found, T2.lv))]
        Merge(found, T1) ==
            Return(found, MergeDownLoop(IF found = -1 THEN grow(T1) ELSE T1,
                                        IF found = -1 THEN Len(T.lv) ELSE found, idx))
        Enter(found) ==
            Merge(found, [T EXCEPT !.log = Append(@, Call("merge_down", idx, found, T.lv))])
    IN Enter(find_mergable_level(T, idx))

\* enforce_tombstone_maximum that never merges down
enforce_tombstone_maximum_off(T, idx) == T

\* LSMTree::enforce_tombstone_maximum
enforce_tombstone_maximum(T, idx) ==
    LET Check(T1) ==
            IF OverTombstoneMax(T.lv[idx + 1], idx) THEN merge_down(T1, idx) ELSE T1
    IN Check([T EXCEPT !.log = Append(@, Call("enforce_tombstone_maximum", idx, 0, T.lv))])

\* MemoryLevel::append_mem_table, as called by LSMTree::merge_memtable_into_l0
merge_memtable_into_l0(T, m) ==
    LET bad == ~(get_run_count(T.lv[1]) < ScaleFactor)
        Store(run) ==
            [T EXCEPT !.lv = [@ EXCEPT ![1] = Append(@, StoreRun(run))],
                      !.canc = @ + run.canc,
                      !.asrt = IF bad THEN @ \cup {"append_mem_table"} ELSE @]
    IN Store(InMemRun_from_memtable(m))

\* LSMTree::merge_memtable, up to the truncate of the memtable
merge_memtable(T, m) ==
    enforce_tombstone_maximum(
        merge_memtable_into_l0(IF ~can_merge_with(T, 0, get_record_count(m))
                               THEN merge_down(T, 0) ELSE T, m), 0)

\* ------------------------------------------------------------------------
\* The same compaction under leveling (LSM_LEVELING = true): a level is one
\* run, and a merge rebuilds the run of the base level.
\* ------------------------------------------------------------------------
\* MemoryLevel::merge_levels, as called by LSMTree::merge_levels: the run of
\* the base level and the run of the incoming level are merged into the one
\* run of a new base level, and the incoming level is replaced by an empty one
merge_levels_leveling(T, base_level, incoming_level) ==
    LET Store(run) ==
            [T EXCEPT !.lv = [@ EXCEPT ![base_level + 1] = <<StoreRun(run)>>,
                                      ![incoming_level + 1] = <<>>],
                      !.canc = @ + run.canc,
                      !.log = Append(@, Call("merge_levels", base_level, incoming_level, T.lv))]
    IN Store(InMemRun_from_runs(T.lv[base_level + 1] \o T.lv[incoming_level + 1], T.g))

RECURSIVE merge_down_leveling(_, _)
RECURSIVE enforce_tombstone_maximum_leveling(_, _)
RECURSIVE MergeDownLoopLeveling(_, _, _)

\* the loop of LSMTree::merge_down
MergeDownLoopLeveling(T, i, idx) ==
    IF i <= idx THEN T
    ELSE MergeDownLoopLeveling(
             enforce_tombstone_maximum_leveling(merge_levels_leveling(T, i, i - 1), i),
             i - 1, idx)

\* LSMTree::merge_down
merge_down_leveling(T, idx) ==
    LET Return(found, T2) ==
            [T2 EXCEPT !.log = Append(@, Call("return", idx, found, T2.lv))]
        Merge(found, T1) ==
            Return(found, MergeDownLoopLeveling(IF found = -1 THEN grow(T1) ELSE T1,
                                                IF found = -1 THEN Len(T.lv) ELSE found, idx))
        Enter(found) ==
            Merge(found, [T EXCEPT !.log = Append(@, Call("merge_down", idx, found, T.lv))])
    IN Enter(find_mergable_level_leveling(T.lv, idx))

\* LSMTree::enforce_tombstone_maximum
enforce_tombstone_maximum_leveling(T, idx) ==
    LET Check(T1) ==
            IF OverTombstoneMax(T.lv[idx + 1], idx) THEN merge_down_leveling(T1, idx) ELSE T1
    IN Check([T EXCEPT !.log = Append(@, Call("enforce_tombstone_maximum", idx, 0, T.lv))])

\* LSMTree::merge_memtable_into_l0: the memtable becomes the run of a
\* temporary level, which is merged with level 0
merge_memtable_into_l0_leveling(T, m) ==
    LET Store(temp, run) ==
            [T EXCEPT !.lv = [@ EXCEPT ![1] = <<StoreRun(run)>>],
                      !.canc = @ + temp.canc + run.canc]
        Merge(temp) == Store(temp, InMemRun_from_runs(T.lv[1] \o <<StoreRun(temp)>>, T.g))
    IN Merge(InMemRun_from_memtable(m))

\* LSMTree::merge_memtable, up to the truncate of the memtable
merge_memtable_leveling(T, m) ==
    enforce_tombstone_maximum_leveling(
        merge_memtable_into_l0_leveling(
            IF ~can_merge_with_leveling(T.lv, 0, get_record_count(m))
            THEN merge_down_leveling(T, 0) ELSE T, m), 0)

\* TRUE when the compaction started by a full memtable reads an unwritten
\* run buffer
HasEmptyRun(lv) == \E i \in 1..Len(lv) : \E j \in 1..Len(lv[i]) : lv[i][j].data = <<>>

\* ------------------------------------------------------------------------
\* State
\*   mt      the active memtable (memtable_1; active_memtable is never flipped)
\*   levels  memory_levels
\*   smp     the range_sample call in progress, if any
\*   gh      history of the calls made so far, with the compaction policy
\*           the tree was built with (leveling is LSM_LEVELING)
\*   unit    the object of a stand-alone call sequence (a memtable used
\*           directly, outside a tree); idle while the tree is in use
\* ------------------------------------------------------------------------
VARIABLES mt, levels, smp, gh, unit

vars == <<mt, levels, smp, gh, unit>>

INVALID_RID == [level_idx |-> -1, run_idx |-> -1]

\* the thread-local counters of the sampling calls
ZeroStats ==
    [sampling_attempts |-> 0, sampling_rejections |-> 0, tombstone_rejections |-> 0,
     bounds_rejections |-> 0, deletion_rejections |-> 0]

\* no range_sample call in progress.  stats are the thread-local counters;
\* run_samples and tally_asrt (TRUE when the assertion at the top of a pass
\* failed) belong to a call
IdleSample == [pc |-> "idle", lo |-> 1, hi |-> 1, k |-> 0, ranges |-> <<>>,
               rejections |-> 0, out |-> <<>>, passes |-> 0, drawn |-> 0,
               stats |-> ZeroStats, run_samples |-> <<>>, tally_asrt |-> FALSE]

\* no stand-alone object
NoUnit == [kind |-> "none"]

\* the history of a tree on which nothing was called
NewHistory ==
    [appends |-> 0, ok |-> 0, tsok |-> 0, canc |-> 0, ret |-> 1,
     ts |-> FALSE, net |-> [kv \in HistKV |-> 0], legal |-> TRUE, uniq |-> TRUE,
     tscalls |-> 0, dels |-> {}, reins |-> FALSE, asrt |-> {}, log |-> <<>>,
     leveling |-> FALSE]

\* the tree after construction
TreeInit ==
    /\ mt = EmptyMemTable
    /\ levels = <<>>
    /\ smp = IdleSample
    /\ gh = NewHistory

Init ==
    /\ TreeInit
    /\ unit = NoUnit

\* LSMTree::append
LSM_append(k, v, ts, g) ==
    LET T0 == [lv |-> levels, g |-> g, canc |-> 0, asrt |-> {}, log |-> <<>>]
        m == IF is_full(mt) THEN truncate(mt) ELSE mt
        res == MemTable_append(m, k, v, ts)
    IN \E T \in {IF ~is_full(mt) THEN T0
                 ELSE IF gh.leveling THEN merge_memtable_leveling(T0, mt)
                 ELSE merge_memtable(T0, mt)} :
       /\ mt' = res.mt
       /\ levels' = T.lv
       /\ gh' = [appends |-> gh.appends + 1,
                 ok |-> gh.ok + res.ret,
                 tsok |-> IF ts THEN gh.tsok + res.ret ELSE gh.tsok,
                 canc |-> gh.canc + T.canc,
                 ret |-> res.ret,
                 ts |-> ts,
                 net |-> IF res.ret = 0 THEN gh.net
                         ELSE [gh.net EXCEPT ![<<k, v>>] = IF ts THEN @ - 1 ELSE @ + 1],
                 legal |-> gh.legal /\ (ts => gh.net[<<k, v>>] > 0),
                 uniq |-> gh.uniq /\ (~ts => gh.net[<<k, v>>] = 0),
                 tscalls |-> IF ts THEN gh.tscalls + 1 ELSE gh.tscalls,
                 dels |-> IF ts THEN gh.dels \cup {<<k, v>>} ELSE gh.dels,
                 reins |-> gh.reins \/ (~ts /\ <<k, v>> \in gh.dels),
                 asrt |-> gh.asrt \cup T.asrt,
                 log |-> T.log,
                 leveling |-> gh.leveling]

\* a call of append between two range_sample calls
AppendStep(bound) ==
    /\ gh.appends < bound
    /\ smp.pc = "idle"
    /\ smp' = smp
    /\ unit' = unit
    /\ \E k \in Keys, v \in Vals, ts \in BOOLEAN :
         \E g \in (IF is_full(mt) /\ HasEmptyRun(levels) THEN Garbage
                   ELSE {Rec(1, 1, 0)}) :
             LSM_append(k, v, ts, g)

\* the keys of a long call sequence
DeepKeys == 1..MaxDeepKey

\* a call of append with a key of DeepKeys, in a call sequence that is long
\* enough to fill the second level and has at most MaxDeepTs tombstones
DeepAppendUpTo(bound) ==
    /\ gh.appends < bound
    /\ smp.pc = "idle"
    /\ smp' = smp
    /\ unit' = unit
    /\ \E k \in DeepKeys, v \in Vals, ts \in {FALSE} \cup {t \in {TRUE} : gh.tscalls < MaxDeepTs} :
         \E g \in (IF is_full(mt) /\ (HasEmptyRun(levels) \/ gh.leveling) THEN Garbage
                   ELSE {Rec(1, 1, 0)}) :
             LSM_append(k, v, ts, g)

DeepAppend == DeepAppendUpTo(MaxDeepAppends)

\* a call of append on a tree of either policy
PolicyAppend == DeepAppendUpTo(MaxPolicyAppends)

\* a call of append in a workload that inserts the keys of LegalKeys in
\* increasing order, each once, and deletes only a record that was inserted
\* earlier and not deleted before
LegalAppend ==
    /\ gh.appends < MaxLegalAppends
    /\ smp.pc = "idle"
    /\ smp' = smp
    /\ unit' = unit
    /\ \E k \in LegalKeys, ts \in BOOLEAN :
         /\ ts => /\ gh.tscalls < MaxLegalTs
                  /\ gh.net[<<k, 1>>] > 0
                  /\ <<k, 1>> \notin gh.dels
         /\ ~ts => /\ gh.net[<<k, 1>>] = 0 /\ <<k, 1>> \notin gh.dels
                   /\ \A j \in 1..(k - 1) : gh.net[<<j, 1>>] > 0 \/ <<j, 1>> \in gh.dels
         /\ \E g \in (IF is_full(mt) /\ HasEmptyRun(levels) THEN Garbage
                       ELSE {Rec(1, 1, 0)}) :
                LSM_append(k, 1, ts, g)

LegalNext == LegalAppend

LegalSpec == Init /\ [][LegalNext]_vars

\* a tree built with either compaction policy
PolicyInit ==
    /\ mt = EmptyMemTable
    /\ levels = <<>>
    /\ smp = IdleSample
    /\ unit = NoUnit
    /\ \E b \in BOOLEAN : gh = [NewHistory EXCEPT !.leveling = b]

PolicyNext == PolicyAppend

PolicySpec == PolicyInit /\ [][PolicyNext]_vars

\* ------------------------------------------------------------------------
\* Sampling
\* ------------------------------------------------------------------------
\* InMemRun::get_lower_bound / get_upper_bound.  The runs of this model hold
\* fewer records than one leaf group (inmem_isam_leaf_fanout), so the index
\* descent ends at the first record and the scan starts there.
RECURSIVE ScanBound(_, _, _, _)
ScanBound(r, pos, key, strict) ==
    IF /\ pos < Len(r.data)
       /\ (IF strict THEN r.data[pos + 1].key < key ELSE r.data[pos + 1].key <= key)
    THEN ScanBound(r, pos + 1, key, strict)
    ELSE pos

get_lower_bound(r, key) == ScanBound(r, 0, key, TRUE)

get_upper_bound(r, key) == ScanBound(r, 0, key, FALSE)

\* ------------------------------------------------------------------------
\* The index of a run.  m_isam_nodes is a sequence of nodes, a node holds
\* inmem_isam_fanout keys and children, and a child is a pointer into m_data
\* ("leaf", at the record index), a pointer to a node ("node", at its index
\* in m_isam_nodes) or null.  Indices are 0-based as in the code.
\* ------------------------------------------------------------------------
NullChild == [kind |-> "null", at |-> 0]

CeilDiv(a, b) == (a + b - 1) \div b

\* a node of the leaf level: child i points at the record group that starts
\* at leaf_base + inmem_isam_leaf_fanout * i, keys[i] is the key of the last
\* record of that group; the entries from the break on stay zeroed
LeafLevelNode(data, leaf_base) ==
    LET Entry(rec_ptr) ==
            IF rec_ptr >= Len(data) THEN [key |-> 0, child |-> NullChild]
            ELSE LET sep_key == IF rec_ptr + inmem_isam_leaf_fanout - 1 < Len(data) - 1
                                THEN rec_ptr + inmem_isam_leaf_fanout - 1
                                ELSE Len(data) - 1
                 IN [key |-> data[sep_key + 1].key,
                     child |-> [kind |-> "leaf", at |-> rec_ptr]]
    IN [keys |-> [i \in 1..inmem_isam_fanout |->
                     Entry(leaf_base + inmem_isam_leaf_fanout * (i - 1)).key],
        child |-> [i \in 1..inmem_isam_fanout |->
                     Entry(leaf_base + inmem_isam_leaf_fanout * (i - 1)).child]]

\* a node of an upper level over the nodes level_start .. level_stop - 1:
\* child i is node now + i, keys[i] the last key slot of that node
UpperLevelNode(nodes, now, level_stop) ==
    [keys |-> [i \in 1..inmem_isam_fanout |->
                  IF now + i - 1 >= level_stop THEN 0
                  ELSE nodes[now + i].keys[inmem_isam_fanout]],
     child |-> [i \in 1..inmem_isam_fanout |->
                  IF now + i - 1 >= level_stop THEN NullChild
                  ELSE [kind |-> "node", at |-> now + i - 1]]]

\* the second loop of build_internal_levels: levels are added until one has
\* a single node, which is the root
RECURSIVE UpperLevels(_, _, _)
UpperLevels(nodes, level_start, level_stop) ==
    IF level_stop - level_start <= 1 THEN [nodes |-> nodes, root |-> level_start]
    ELSE UpperLevels(
             nodes \o [p \in 1..CeilDiv(level_stop - level_start, inmem_isam_fanout) |->
                          UpperLevelNode(nodes, level_start + (p - 1) * inmem_isam_fanout,
                                         level_stop)],
             level_stop,
             level_stop + CeilDiv(level_stop - level_start, inmem_isam_fanout))

\* InMemRun::build_internal_levels
build_internal_levels(data) ==
    LET group == inmem_isam_fanout * inmem_isam_leaf_fanout
        first == [t \in 1..CeilDiv(Len(data), group) |->
                     LeafLevelNode(data, (t - 1) * group)]
    IN UpperLevels(first, 0, Len(first))

\* the child the loop over a node picks when it never stops early
PickChild_last_child(node, i, key, strict) ==
    node.child[inmem_isam_fanout]

\* the child the loop over a node picks: the first whose right neighbour is
\* null or whose key is not below the search key (above it for the upper
\* bound), the last one when the loop ends without a pick
RECURSIVE PickChild(_, _, _, _)
PickChild(node, i, key, strict) ==
    IF i > inmem_isam_fanout - 1 THEN node.child[inmem_isam_fanout]
    ELSE IF \/ node.child[i + 1] = NullChild
            \/ (IF strict THEN key < node.keys[i] ELSE key <= node.keys[i])
         THEN node.child[i]
         ELSE PickChild(node, i + 1, key, strict)

\* the descent from now to a leaf: the record index it ends at, -1 when it
\* follows a null child
RECURSIVE IndexDescend(_, _, _, _)
IndexDescend(idx, now, key, strict) ==
    IF now.kind = "leaf" THEN now.at
    ELSE IF now.kind = "null" THEN -1
    ELSE IndexDescend(idx, PickChild(idx.nodes[now.at + 1], 1, key, strict), key, strict)

\* InMemRun::get_lower_bound with the descent through the index
InMemRun_get_lower_bound(r, key) ==
    LET idx == build_internal_levels(r.data)
        pos == IndexDescend(idx, [kind |-> "node", at |-> idx.root], key, FALSE)
    IN IF pos = -1 THEN -1 ELSE ScanBound(r, pos, key, TRUE)

\* InMemRun::get_upper_bound with the descent through the index
InMemRun_get_upper_bound(r, key) ==
    LET idx == build_internal_levels(r.data)
        pos == IndexDescend(idx, [kind |-> "node", at |-> idx.root], key, TRUE)
    IN IF pos = -1 THEN -1 ELSE ScanBound(r, pos, key, FALSE)

\* InMemRun::get_record_at; NoRecord is the null pointer
NoRecord == Rec(0, 0, 0)

get_record_at(r, idx) == IF idx < Len(r.data) THEN r.data[idx + 1] ELSE NoRecord

\* InMemRun::check_tombstone; past is the outcome of the match on the slot
\* behind the last record, which the scan reads when it runs off the end
RECURSIVE ScanLt(_, _, _, _)
ScanLt(r, pos, k, v) ==
    IF pos < Len(r.data) /\ lt(r.data[pos + 1], k, v)
    THEN ScanLt(r, pos + 1, k, v) ELSE pos

check_tombstone(r, k, v, past) ==
    LET idx == get_lower_bound(r, k)
        ptr == ScanLt(r, idx, k, v)
    IN IF idx >= Len(r.data) THEN FALSE
       ELSE IF ptr >= Len(r.data) THEN past
            ELSE record_match(r.data[ptr + 1], k, v, TRUE)

\* MemoryLevel::tombstone_check: runs 0 .. run_stop-1; fp is a false positive
\* of the bloom filter
tombstone_check(l, run_stop, k, v, fp, past) ==
    \E i \in 1..Len(l) :
        /\ i <= run_stop
        /\ (k \in l[i].bf \/ fp)
        /\ check_tombstone(l[i], k, v, past)

\* LSMTree::is_deleted
is_deleted(rec, rid, fp, past) ==
    IF get_delete_status(rec) THEN TRUE
    ELSE IF MemTable_check_tombstone(mt, rec.key, rec.value) THEN TRUE
    ELSE IF rid = INVALID_RID THEN FALSE
    ELSE IF \E lvl \in 0..(rid.level_idx - 1) :
               tombstone_check(levels[lvl + 1], 0, rec.key, rec.value, fp, past)
         THEN TRUE
         ELSE tombstone_check(levels[rid.level_idx + 1], rid.run_idx + 1,
                              rec.key, rec.value, fp, past)

\* LSMTree::rejection without the test of the key against the bounds
rejection_no_bounds(rec, rid, lower_bound, upper_bound, fp, past) ==
    IF is_tombstone(rec) THEN TRUE
    ELSE is_deleted(rec, rid, fp, past)

\* LSMTree::rejection
rejection(rec, rid, lower_bound, upper_bound, fp, past) ==
    IF is_tombstone(rec) THEN TRUE
    ELSE IF rec.key < lower_bound \/ rec.key > upper_bound THEN TRUE
    ELSE is_deleted(rec, rid, fp, past)

\* LSMTree::rejection: the counter the call increments, "none" when the
\* record is not rejected
rejection_counter(rec, rid, lower_bound, upper_bound, fp, past) ==
    IF is_tombstone(rec) THEN "tombstone_rejections"
    ELSE IF rec.key < lower_bound \/ rec.key > upper_bound THEN "bounds_rejections"
    ELSE IF is_deleted(rec, rid, fp, past) THEN "deletion_rejections"
    ELSE "none"

\* LSMTree::add_to_sample: the counters after the call on one record
add_to_sample_stats(st, rec, rid, upper_key, lower_key, fp, past) ==
    LET st1 == [st EXCEPT !.sampling_attempts = @ + 1]
        cnt == rejection_counter(rec, rid, lower_key, upper_key, fp, past)
    IN IF rec = NoRecord THEN [st1 EXCEPT !.sampling_rejections = @ + 1]
       ELSE IF cnt = "none" THEN st1
       ELSE [st1 EXCEPT ![cnt] = @ + 1, !.sampling_rejections = @ + 1]

\* LSMTree::add_to_sample: TRUE when the record is written to the sample
add_to_sample(rec, rid, upper_key, lower_key, fp, past) ==
    ~(rec = NoRecord \/ rejection(rec, rid, lower_key, upper_key, fp, past))

\* MemoryLevel::get_sample_ranges over all levels; the bounds of a run that
\* has no records (and so no index) are 0 and ph
RunRange(l, j, lo, hi, ph) ==
    LET r == levels[l][j]
    IN [rid |-> [level_idx |-> l - 1, run_idx |-> j - 1],
        low |-> IF r.data = <<>> THEN 0 ELSE get_lower_bound(r, lo),
        high |-> IF r.data = <<>> THEN ph ELSE get_upper_bound(r, hi)]

RECURSIVE LevelRanges(_, _, _, _, _)
LevelRanges(l, j, lo, hi, ph) ==
    IF j > Len(levels[l]) THEN <<>>
    ELSE <<RunRange(l, j, lo, hi, ph)>> \o LevelRanges(l, j + 1, lo, hi, ph)

RECURSIVE get_sample_ranges(_, _, _, _)
get_sample_ranges(l, lo, hi, ph) ==
    IF l > Len(levels) THEN <<>>
    ELSE LevelRanges(l, 1, lo, hi, ph) \o get_sample_ranges(l + 1, lo, hi, ph)

RECURSIVE SumRanges(_)
SumRanges(rs) ==
    IF rs = <<>> THEN 0 ELSE (Head(rs).high - Head(rs).low) + SumRanges(Tail(rs))

\* LSMTree::range_sample from the descriptors to the start of the rejection
\* loop
SampleStart ==
    /\ smp.pc = "idle"
    /\ \E lo \in Keys, hi \in Keys, k \in 1..MaxK :
         \E ph \in (IF HasEmptyRun(levels) THEN {0, 1} ELSE {0}) :
            LET ranges == get_sample_ranges(1, lo, hi, ph)
                total_records == get_record_count(mt) + SumRanges(ranges)
            IN /\ lo <= hi
               /\ smp' = [pc |-> IF total_records = 0 THEN "done" ELSE "loop",
                          lo |-> lo, hi |-> hi, k |-> k, ranges |-> ranges,
                          rejections |-> k, out |-> <<>>, passes |-> 0, drawn |-> 0,
                          stats |-> IF total_records = 0 THEN smp.stats ELSE ZeroStats,
                          run_samples |-> IF total_records = 0 THEN <<>>
                                          ELSE [d \in 1..(1 + Len(ranges)) |-> 0],
                          tally_asrt |-> FALSE]

\* LSMTree::range_sample up to the start of the rejection loop
SampleBegin ==
    /\ SampleStart
    /\ UNCHANGED <<mt, levels, gh, unit>>

\* the candidates one draw of the rejection loop can produce: descriptor d
\* (0 the memtable, then the ranges in order) and an index into it
MemtableDraws ==
    LET memtable_cutoff == get_record_count(mt) - 1
    IN IF get_record_count(mt) = 0 THEN {}
       ELSE IF memtable_cutoff = 0 THEN {0}
            ELSE 0..(memtable_cutoff - 1)

Candidates ==
    {[d |-> 0, idx |-> i] : i \in MemtableDraws}
    \cup UNION {{[d |-> j, idx |-> i] : i \in smp.ranges[j].low..(smp.ranges[j].high - 1)}
                  : j \in 1..Len(smp.ranges)}

CandRecord(c) ==
    IF c.d = 0 THEN mt.data[c.idx + 1]
    ELSE LET rid == smp.ranges[c.d].rid
         IN get_record_at(levels[rid.level_idx + 1][rid.run_idx + 1], c.idx)

CandRid(c) == IF c.d = 0 THEN INVALID_RID ELSE smp.ranges[c.d].rid

Accepts(c, fp, past) ==
    add_to_sample(CandRecord(c), CandRid(c), smp.hi, smp.lo, fp, past)

\* what the reads of a pass that the run contents do not determine yield:
\* <<bloom filter false positive, match on the slot behind the last record>>
\* (a false positive alone changes no result)
ReadOutcomes == {<<FALSE, FALSE>>, <<FALSE, TRUE>>, <<TRUE, TRUE>>}

\* the records one pass adds to the sample, drawn in the order cs
RECURSIVE PassOut(_, _, _, _)
PassOut(cs, i, fp, past) ==
    IF i > Len(cs) THEN <<>>
    ELSE (IF Accepts(cs[i], fp, past)
          THEN <<[rec |-> CandRecord(cs[i]), rid |-> CandRid(cs[i])]>>
          ELSE <<>>) \o PassOut(cs, i + 1, fp, past)

\* the counters after one pass that drew cs
RECURSIVE PassStats(_, _, _, _, _)
PassStats(st, cs, i, fp, past) ==
    IF i > Len(cs) THEN st
    ELSE PassStats(add_to_sample_stats(st, CandRecord(cs[i]), CandRid(cs[i]),
                                       smp.hi, smp.lo, fp, past),
                   cs, i + 1, fp, past)

\* run_samples after the alias draws of a pass: cs[i].d is what alias.get
\* returned (descriptor d is entry d + 1)
AliasTally(rs, cs) ==
    [e \in 1..Len(rs) |-> rs[e] + Cardinality({i \in 1..Len(cs) : cs[i].d + 1 = e})]

\* draw loops whose memory loop counts from the entry of the memtable
DrawLoops_no_offset(rs, memory_ranges) ==
    LET run_offset == 0
    IN [e \in 1..Len(rs) |->
           IF e = 1 THEN 0
           ELSE IF \E i \in 0..(Len(memory_ranges) - 1) : e = i + run_offset + 1 THEN 0
           ELSE rs[e]]

\* run_samples after the draw loops of a pass: the memtable loop drains
\* entry 0, the loop over memory_ranges drains entry i + run_offset
DrawLoops(rs, memory_ranges) ==
    LET run_offset == 1
    IN [e \in 1..Len(rs) |->
           IF e = 1 THEN 0
           ELSE IF \E i \in 0..(Len(memory_ranges) - 1) : e = i + run_offset + 1 THEN 0
           ELSE rs[e]]

\* one pass of the do-while loop of LSMTree::range_sample
SamplePass ==
    /\ smp.pc = "loop"
    /\ smp.stats.sampling_attempts + smp.rejections <= MaxAttempts
    /\ \E cs \in [1..smp.rejections -> Candidates], u \in ReadOutcomes :
         /\ \A i \in 1..(smp.rejections - 1) : cs[i].d <= cs[i + 1].d
         /\ LET acc == PassOut(cs, 1, u[1], u[2])
                out == smp.out \o acc
            IN smp' = [smp EXCEPT !.out = out,
                                  !.rejections = smp.rejections - Len(acc),
                                  !.drawn = smp.rejections,
                                  !.passes = IF smp.passes < 2 THEN smp.passes + 1 ELSE 2,
                                  !.pc = IF Len(out) < smp.k THEN "loop" ELSE "done",
                                  !.stats = PassStats(smp.stats, cs, 1, u[1], u[2]),
                                  !.tally_asrt = @ \/ \E e \in 1..Len(smp.run_samples) :
                                                        smp.run_samples[e] # 0,
                                  !.run_samples = DrawLoops(AliasTally(@, cs), smp.ranges)]
    /\ UNCHANGED <<mt, levels, gh, unit>>

\* the call aborts: gsl_rng_uniform_int is asked for an integer below 0, or
\* get_sample_ranges descended the index of a run that has none
SampleAbort ==
    /\ \/ /\ smp.pc = "loop"
          /\ smp.rejections > 0
          /\ get_record_count(mt) = 1
       \/ /\ smp.pc = "idle"
          /\ HasEmptyRun(levels)
    /\ smp' = [smp EXCEPT !.pc = "crashed"]
    /\ UNCHANGED <<mt, levels, gh, unit>>

\* LSMTree::range_sample returns to its caller
SampleReturn ==
    /\ smp.pc = "done"
    /\ smp' = [IdleSample EXCEPT !.stats = smp.stats]
    /\ UNCHANGED <<mt, levels, gh, unit>>

\* ------------------------------------------------------------------------
\* Memtables used directly (MemTable, UnsortedMemTable, the BTree MemTable).
\* A boolean result is kept as 1 (true) or 0 (false).
\* ------------------------------------------------------------------------
\* UnsortedMemTable::UnsortedMemTable; table holds the finalized slots
EmptyUnsorted ==
    [table |-> <<>>, current_tail |-> 0, tombstones |-> 0, cache |-> {},
     thread_pins |-> 0]

\* UnsortedMemTable::get_index: fetch_add(1), then the bound test
Unsorted_get_index(u) == IF u.current_tail < MemCap THEN u.current_tail ELSE -1

\* UnsortedMemTable::get_record_count
Unsorted_get_record_count(u) ==
    IF u.current_tail < MemCap THEN u.current_tail ELSE MemCap

\* UnsortedMemTable::insert
Unsorted_insert(u, k, v, ts) ==
    IF Unsorted_get_index(u) = -1
    THEN [obj |-> [u EXCEPT !.current_tail = @ + 1], ret |-> 0]
    ELSE [obj |-> [table |-> Append(u.table, Rec(k, v, IF ts THEN 1 ELSE 0)),
                   current_tail |-> u.current_tail + 1,
                   tombstones |-> IF ts THEN u.tombstones + 1 ELSE u.tombstones,
                   cache |-> IF ts THEN u.cache \cup {<<k, v>>} ELSE u.cache,
                   thread_pins |-> u.thread_pins],
          ret |-> 1]

\* UnsortedMemTable::truncate that does not look at the reader pins
Unsorted_truncate_unpinned(u) == [obj |-> EmptyUnsorted, ret |-> 1]

\* UnsortedMemTable::truncate
Unsorted_truncate(u) ==
    IF u.thread_pins > 0 THEN [obj |-> u, ret |-> 0]
    ELSE [obj |-> EmptyUnsorted, ret |-> 1]

\* thread_pin / thread_unpin
thread_pin(u) == [u EXCEPT !.thread_pins = @ + 1]

thread_unpin(u) == [u EXCEPT !.thread_pins = @ - 1]

\* UnsortedMemTable::get_sample_range and start_sorted_scan pin the table
Unsorted_open_reader(u) == thread_pin(u)

\* UnsortedRecordIterator::end_scan (and the destructor of a range)
Unsorted_end_scan(u) == thread_unpin(u)

\* btkey_cmp::operator(): every path returns a non-zero int (the key or value
\* comparison when it is not 0, otherwise -1 or 1), which converts to true
btkey_cmp(first, second) ==
    LET cmp == IF first.key < second.key THEN -1
               ELSE IF first.key > second.key THEN 1 ELSE 0
        cmp2 == IF first.value < second.value THEN -1
                ELSE IF first.value > second.value THEN 1 ELSE 0
        res == IF cmp = 0
               THEN (IF cmp2 = 0
                     THEN (IF first.header < second.header THEN -1 ELSE 1)
                     ELSE cmp2)
               ELSE cmp
    IN res # 0

\* the slot BTree::insert and BTree::lower_bound descend to: the first entry
\* that the comparator does not order before the key
RECURSIVE BTree_find_lower(_, _, _)
BTree_find_lower(tree, pos, key) ==
    IF pos <= Len(tree) /\ btkey_cmp(tree[pos], key)
    THEN BTree_find_lower(tree, pos + 1, key) ELSE pos

\* BTree::insert
BTree_insert(tree, r) ==
    LET p == BTree_find_lower(tree, 1, r)
    IN SubSeq(tree, 1, p - 1) \o <<r>> \o SubSeq(tree, p, Len(tree))

\* MemTable::MemTable of MemTableBTree.h
EmptyBTreeMemTable == [tree |-> <<>>, reccnt |-> 0, tscnt |-> 0, filter |-> {}]

\* MemTable::append of MemTableBTree.h
BTree_append(b, k, v, ts) ==
    IF b.reccnt >= MemCap THEN [obj |-> b, ret |-> 0]
    ELSE IF ts /\ b.tscnt + 1 > TsCap THEN [obj |-> b, ret |-> 0]
    ELSE [obj |-> [tree |-> BTree_insert(b.tree,
                               Rec(k, v, b.reccnt * 4 + (IF ts THEN 1 ELSE 0))),
                   reccnt |-> b.reccnt + 1,
                   tscnt |-> IF ts THEN b.tscnt + 1 ELSE b.tscnt,
                   filter |-> IF ts THEN b.filter \cup {k} ELSE b.filter],
          ret |-> 1]

\* MemTable::truncate of MemTableBTree.h
BTree_truncate(b) == [obj |-> EmptyBTreeMemTable, ret |-> 1]

\* MemTable::check_tombstone of MemTable.h called on its own: the result of
\* the scan of the slots below m_current_tail, 1 for true and 0 for false.
\* A tail behind the end of the buffer makes the scan read slots that are
\* not part of it, so a probe that matches no stored record can return either.
MemTable_check_tombstone_scan(m, k, v) ==
    IF k \notin m.filter THEN {0}
    ELSE IF \E i \in 1..Len(m.data) : i <= m.tail /\ record_match(m.data[i], k, v, TRUE)
         THEN {1}
    ELSE IF m.tail > MemCap THEN {0, 1}
    ELSE {0}

\* MemTable::check_tombstone of MemTableBTree.h: 1 for true, 0 for false, -1
\* when the loop never ends.  The iterator is never advanced, so an entry
\* that matches (key, val) without the tombstone bit is tested for ever;
\* behind the last entry the iterator is end() and the slot it points to
\* can hold anything.
BTree_check_tombstone(b, k, v) ==
    LET p == BTree_find_lower(b.tree, 1, Rec(k, v, 0))
    IN IF k \notin b.filter THEN {0}
       ELSE IF p > Len(b.tree) THEN {-1, 0, 1}
       ELSE IF b.tree[p].key = k /\ b.tree[p].value = v
            THEN (IF is_tombstone(b.tree[p]) THEN {1} ELSE {-1})
            ELSE {0}

Kinds == {"MemTable", "Unsorted", "BTree"}

EmptyOf(kind) ==
    IF kind = "MemTable" THEN EmptyMemTable
    ELSE IF kind = "Unsorted" THEN EmptyUnsorted ELSE EmptyBTreeMemTable

\* the calls on the memtable of unit, by its class
UnitAppendCall(k, v, ts) ==
    IF unit.kind = "MemTable"
    THEN LET r == MemTable_append(unit.obj, k, v, ts) IN [obj |-> r.mt, ret |-> r.ret]
    ELSE IF unit.kind = "Unsorted" THEN Unsorted_insert(unit.obj, k, v, ts)
    ELSE BTree_append(unit.obj, k, v, ts)

TruncateCall(kind, o) ==
    IF kind = "MemTable" THEN [obj |-> truncate(o), ret |-> 1]
    ELSE IF kind = "Unsorted" THEN Unsorted_truncate(o)
    ELSE BTree_truncate(o)

\* get_record_count, get_tombstone_count and the stored records of unit
UnitRecordCount ==
    IF unit.kind = "MemTable" THEN get_record_count(unit.obj)
    ELSE IF unit.kind = "Unsorted" THEN Unsorted_get_record_count(unit.obj)
    ELSE unit.obj.reccnt

UnitTombstoneCount ==
    IF unit.kind = "Unsorted" THEN unit.obj.tombstones ELSE unit.obj.tscnt

UnitRecords ==
    IF unit.kind = "MemTable" THEN unit.obj.data
    ELSE IF unit.kind = "Unsorted" THEN unit.obj.table ELSE unit.obj.tree

NoArgs(name) == [name |-> name, k |-> 0, v |-> 0, ts |-> FALSE]

\* a memtable after its constructor; op and ret are the last call and its
\* result, n the number of calls made, pre the record count before the last
\* call
UnitInit ==
    /\ TreeInit
    /\ unit \in {[kind |-> kd, obj |-> EmptyOf(kd), op |-> NoArgs("new"),
                  ret |-> 1, n |-> 0, pre |-> 0] : kd \in Kinds}

UnitAppend ==
    /\ unit.n < MaxMemOps
    /\ \E k \in Keys, v \in Vals, ts \in BOOLEAN :
         LET r == UnitAppendCall(k, v, ts)
         IN unit' = [unit EXCEPT !.obj = r.obj, !.ret = r.ret, !.n = @ + 1, !.pre = UnitRecordCount,
                                 !.op = [name |-> "append", k |-> k, v |-> v, ts |-> ts]]
    /\ UNCHANGED <<mt, levels, smp, gh>>

UnitTruncate ==
    /\ unit.n < MaxMemOps
    /\ LET r == TruncateCall(unit.kind, unit.obj)
       IN unit' = [unit EXCEPT !.obj = r.obj, !.ret = r.ret, !.n = @ + 1, !.pre = UnitRecordCount,
                               !.op = NoArgs("truncate")]
    /\ UNCHANGED <<mt, levels, smp, gh>>

\* a reader opens a sorted scan or a sample range
UnitOpenReader ==
    /\ unit.n < MaxMemOps
    /\ unit.kind = "Unsorted"
    /\ unit' = [unit EXCEPT !.obj = Unsorted_open_reader(unit.obj), !.ret = 1,
                            !.n = @ + 1, !.pre = UnitRecordCount, !.op = NoArgs("open")]
    /\ UNCHANGED <<mt, levels, smp, gh>>

\* a reader ends its scan
UnitEndScan ==
    /\ unit.n < MaxMemOps
    /\ unit.kind = "Unsorted"
    /\ unit.obj.thread_pins > 0
    /\ unit' = [unit EXCEPT !.obj = Unsorted_end_scan(unit.obj), !.ret = 1,
                            !.n = @ + 1, !.pre = UnitRecordCount, !.op = NoArgs("end_scan")]
    /\ UNCHANGED <<mt, levels, smp, gh>>

\* check_tombstone on a MemTable or on the MemTable of MemTableBTree.h
UnitCheckTombstone ==
    /\ unit.n < MaxMemOps
    /\ unit.kind \in {"MemTable", "BTree"}
    /\ \E k \in Keys, v \in Vals :
         \E out \in (IF unit.kind = "MemTable"
                     THEN MemTable_check_tombstone_scan(unit.obj, k, v)
                     ELSE BTree_check_tombstone(unit.obj, k, v)) :
            unit' = [unit EXCEPT !.ret = out, !.n = @ + 1, !.pre = UnitRecordCount,
                                 !.op = [name |-> "check_tombstone", k |-> k, v |-> v,
                                         ts |-> FALSE]]
    /\ UNCHANGED <<mt, levels, smp, gh>>

\* ------------------------------------------------------------------------
\* MemoryLevel persistence.  A text is a sequence of characters; "memory",
\* the part of a file name after the directory and a decimal number are
\* written as one character each, " " and "NL" are the white space.
\* ------------------------------------------------------------------------
\* root directories: one without and one with white space in its name
Directories == {<<"d">>, <<"d", " ", "e">>}

WhiteSpace == {" ", "NL"}

\* printf / scanf %ld
Decimal == <<"0", "1", "2", "3", "4", "5", "6", "7", "8", "9">>

FormatDecimal(n) == Decimal[n + 1]

IsDecimal(tok) == Len(tok) = 1 /\ \E n \in 1..Len(Decimal) : Decimal[n] = tok[1]

ParseDecimal(tok) == (CHOOSE n \in 1..Len(Decimal) : Decimal[n] = tok[1]) - 1

\* "/level<level_no>_run<i>-0.dat"
RunFileNames == <<"/level_run0-0.dat", "/level_run1-0.dat", "/level_run2-0.dat",
                  "/level_run3-0.dat">>

\* the file name persist_level builds for run i (0-based)
RunFileName(dir, i) == dir \o <<RunFileNames[i + 1]>>

\* InMemRun::persist_to_file: the records of the run
persist_to_file(r) == r.data

\* the line persist_level prints for run i
MetaLine(dir, l, i) ==
    <<"memory", " ">> \o RunFileName(dir, i)
       \o <<" ", FormatDecimal(Len(l[i + 1].data)), " ", FormatDecimal(l[i + 1].tscnt), "NL">>

\* MemoryLevel::persist_level: the meta file ...
RECURSIVE persist_meta(_, _, _)
persist_meta(dir, l, i) ==
    IF i >= Len(l) THEN <<>> ELSE MetaLine(dir, l, i) \o persist_meta(dir, l, i + 1)

\* ... and the data files, by name
persist_files(dir, l) ==
    [f \in {RunFileName(dir, i) : i \in 0..(Len(l) - 1)} |->
        persist_to_file(l[(CHOOSE i \in 0..(Len(l) - 1) : RunFileName(dir, i) = f) + 1])]

\* the white-space separated words of a text, as scanf reads them
RECURSIVE Words(_, _)
Words(text, cur) ==
    IF text = <<>> THEN (IF cur = <<>> THEN <<>> ELSE <<cur>>)
    ELSE IF Head(text) \in WhiteSpace
         THEN (IF cur = <<>> THEN <<>> ELSE <<cur>>) \o Words(Tail(text), <<>>)
         ELSE Words(Tail(text), Append(cur, Head(text)))

\* fscanf(meta_f, "%s %s %ld %ld\n", typebuff, fnamebuff, &reccnt, &tscnt):
\* n is the number of items assigned (-1 for EOF); a conversion that fails
\* leaves its word in the stream and the later variables as they were
fscanf_line(toks, st) ==
    IF toks = <<>> THEN [n |-> -1, rest |-> toks, st |-> st]
    ELSE LET s1 == [st EXCEPT !.typebuff = toks[1]]
         IN IF Len(toks) = 1 THEN [n |-> 1, rest |-> <<>>, st |-> s1]
            ELSE LET s2 == [s1 EXCEPT !.fnamebuff = toks[2]]
                 IN IF Len(toks) = 2 \/ ~IsDecimal(toks[3])
                    THEN [n |-> 2, rest |-> SubSeq(toks, 3, Len(toks)), st |-> s2]
                    ELSE LET s3 == [s2 EXCEPT !.reccnt = ParseDecimal(toks[3])]
                         IN IF Len(toks) = 3 \/ ~IsDecimal(toks[4])
                            THEN [n |-> 3, rest |-> SubSeq(toks, 4, Len(toks)), st |-> s3]
                            ELSE [n |-> 4, rest |-> SubSeq(toks, 5, Len(toks)),
                                  st |-> [s3 EXCEPT !.tscnt = ParseDecimal(toks[4])]]

\* InMemRun(fname, reccnt, tscnt, bf): the first reccnt records of the file
InMemRun_from_file(files, fname, reccnt, tscnt) ==
    IF reccnt = 0 THEN [ok |-> TRUE, run |-> [data |-> <<>>, tscnt |-> tscnt, bf |-> {}]]
    ELSE IF fname \notin DOMAIN files \/ Len(files[fname]) < reccnt
         THEN [ok |-> FALSE, run |-> [data |-> <<>>, tscnt |-> 0, bf |-> {}]]
         ELSE LET d == SubSeq(files[fname], 1, reccnt)
              IN [ok |-> TRUE,
                  run |-> [data |-> d, tscnt |-> tscnt,
                           bf |-> {d[i].key : i \in {j \in 1..reccnt : is_tombstone(d[j])}}]]

\* the loop of MemoryLevel(level_no, run_cap, root_directory, meta_fname, rng);
\* ok is FALSE when the assertion on the type fails or a run cannot be read
RECURSIVE load_level(_, _, _, _, _)
load_level(files, toks, st, run_cap, runs) ==
    LET sc == fscanf_line(toks, st)
    IN IF sc.n = -1 \/ Len(runs) >= run_cap THEN [ok |-> TRUE, runs |-> runs]
       ELSE IF sc.st.typebuff # <<"memory">> THEN [ok |-> FALSE, runs |-> runs]
       ELSE LET r == InMemRun_from_file(files, sc.st.fnamebuff, sc.st.reccnt, sc.st.tscnt)
            IN IF ~r.ok THEN [ok |-> FALSE, runs |-> runs]
               ELSE load_level(files, sc.rest, sc.st, run_cap, Append(runs, r.run))

\* the buffers and counters of the constructor before its loop
LoadStart == [typebuff |-> <<>>, fnamebuff |-> <<>>, reccnt |-> 0, tscnt |-> 0]

\* append while no level has been persisted
PersistAppend ==
    /\ unit = NoUnit
    /\ AppendStep(MaxPersistAppends)

\* MemoryLevel::persist_level of a level of the tree
PersistLevel ==
    /\ unit = NoUnit
    /\ smp.pc = "idle"
    /\ \E l \in 1..Len(levels), dir \in Directories :
         /\ levels[l] # <<>>
         /\ unit' = [kind |-> "level", pc |-> "persisted", lvl |-> l, dir |-> dir,
                     meta |-> persist_meta(dir, levels[l], 0),
                     files |-> persist_files(dir, levels[l]),
                     run_cap |-> 0, ok |-> TRUE, runs |-> <<>>]
    /\ UNCHANGED <<mt, levels, smp, gh>>

\* MemoryLevel(level_no, run_cap, root_directory, meta_fname, rng) with a run
\* capacity that is at least the run count of the persisted level
LoadLevel ==
    /\ unit.kind = "level"
    /\ unit.pc = "persisted"
    /\ \E cap \in Len(levels[unit.lvl])..(Len(levels[unit.lvl]) + 1) :
         LET r == load_level(unit.files, Words(unit.meta, <<>>), LoadStart, cap, <<>>)
         IN unit' = [unit EXCEPT !.pc = "loaded", !.run_cap = cap,
                                 !.ok = r.ok, !.runs = r.runs]
    /\ UNCHANGED <<mt, levels, smp, gh>>

\* ------------------------------------------------------------------------
\* Tagged deletion
\* ------------------------------------------------------------------------
\* record_t::set_delete_status
set_delete_status(r) == IF get_delete_status(r) THEN r ELSE [r EXCEPT !.header = @ + 2]

\* InMemRun::delete_record; past is the outcome of the match on the slot
\* behind the last record, which is read when the scan runs off the end
InMemRun_delete_record(r, k, v, past) ==
    LET idx == get_lower_bound(r, k)
        ptr == ScanLt(r, idx, k, v)
    IN IF idx >= Len(r.data) THEN [ret |-> FALSE, run |-> r]
       ELSE IF ptr >= Len(r.data) THEN [ret |-> past, run |-> r]
       ELSE IF record_match(r.data[ptr + 1], k, v, FALSE)
            THEN [ret |-> TRUE,
                  run |-> [r EXCEPT !.data[ptr + 1] = set_delete_status(@)]]
            ELSE [ret |-> FALSE, run |-> r]

\* MemoryLevel::delete_record: the runs of the level in order, up to the
\* first that deletes
RECURSIVE MemoryLevel_delete_record(_, _, _, _, _)
MemoryLevel_delete_record(l, j, k, v, past) ==
    IF j > Len(l) THEN [ret |-> FALSE, level |-> l]
    ELSE LET d == InMemRun_delete_record(l[j], k, v, past)
         IN IF d.ret THEN [ret |-> TRUE, level |-> [l EXCEPT ![j] = d.run]]
            ELSE MemoryLevel_delete_record(l, j + 1, k, v, past)

\* the loop of LSMTree::delete_record over memory_levels
RECURSIVE DeleteInLevels(_, _, _, _, _)
DeleteInLevels(lv, i, k, v, past) ==
    IF i > Len(lv) THEN [ret |-> FALSE, lv |-> lv]
    ELSE LET d == MemoryLevel_delete_record(lv[i], 1, k, v, past)
         IN IF d.ret THEN [ret |-> TRUE, lv |-> [lv EXCEPT ![i] = d.level]]
            ELSE DeleteInLevels(lv, i + 1, k, v, past)

\* MemTable::delete_record of MemTableBTree.h on the records of the memtable
\* in tree order.  lower_bound descends with btkey_cmp; when it ends behind
\* the last record the iterator is end() and hit is what the comparison on
\* the slot it points to yields; erase(end()) leaves the records alone.
BTree_delete_record(tree, k, v, hit) ==
    LET p == BTree_find_lower(tree, 1, Rec(k, v, 0))
    IN IF p > Len(tree) THEN [ret |-> hit, tree |-> tree]
       ELSE IF tree[p].key = k /\ tree[p].value = v
            THEN [ret |-> TRUE, tree |-> SubSeq(tree, 1, p - 1) \o SubSeq(tree, p + 1, Len(tree))]
            ELSE [ret |-> FALSE, tree |-> tree]

\* LSMTree::delete_record
LSM_delete_record(k, v, past, hit) ==
    LET d == DeleteInLevels(levels, 1, k, v, past)
        m == BTree_delete_record(mt.data, k, v, hit)
    IN IF d.ret THEN [ret |-> 1, lv |-> d.lv, mt |-> mt, in_run |-> TRUE]
       ELSE [ret |-> IF m.ret THEN 1 ELSE 0, lv |-> levels,
             mt |-> [mt EXCEPT !.data = m.tree], in_run |-> FALSE]

\* append while no record has been deleted
DeleteAppend ==
    /\ unit = NoUnit
    /\ AppendStep(MaxDeleteAppends)

\* a call of delete_record, for a value stored or the one above them;
\* in_run is TRUE when the delete_record of a run returned true
DeleteRecord ==
    /\ unit = NoUnit
    /\ smp.pc = "idle"
    /\ \E k \in Keys, v \in 1..(MaxVal + 1), past \in BOOLEAN, hit \in BOOLEAN :
         LET d == LSM_delete_record(k, v, past, hit)
         IN /\ levels' = d.lv
            /\ mt' = d.mt
            /\ unit' = [kind |-> "delete", key |-> k, value |-> v, ret |-> d.ret,
                        lv |-> levels, mt |-> mt, in_run |-> d.in_run]
    /\ UNCHANGED <<smp, gh>>

\* ------------------------------------------------------------------------
\* ISAMTree: the leaf pages of a tree built from sorted records, and the
\* page lookups.  Pages are numbered as in the file: the leaves start at
\* FirstLeafPnum, INVALID_PNUM is no page.
\* ------------------------------------------------------------------------
INVALID_PNUM == 0

FirstLeafPnum == 2

IsamKeys == 1..MaxIsamKey

\* the keys looked up: the stored ones, one below and one above them
ProbeKeys == 0..(MaxIsamKey + 1)

\* the key comparison of the record schema
compare_func_key(a, b) == IF a < b THEN -1 ELSE IF a = b THEN 0 ELSE 1

\* the sorted keys with c[k] copies of key k
RECURSIVE KeysOfCounts(_, _)
KeysOfCounts(c, k) ==
    IF k > MaxIsamKey THEN <<>>
    ELSE [i \in 1..c[k] |-> k] \o KeysOfCounts(c, k + 1)

RECURSIVE SumCounts(_, _)
SumCounts(c, k) == IF k > MaxIsamKey THEN 0 ELSE c[k] + SumCounts(c, k + 1)

\* the sorted inputs ISAMTree::initialize is given
SortedInputs ==
    {KeysOfCounts(c, 1) : c \in {d \in [IsamKeys -> 0..(PageRecs * MaxLeafPages)] :
                                    SumCounts(d, 1) \in 1..(PageRecs * MaxLeafPages)}}

\* ISAMTree::initialize: the leaf pages, filled in order with PageRecs
\* records each
RECURSIVE ISAMTree_initialize(_)
ISAMTree_initialize(keys) ==
    IF Len(keys) <= PageRecs THEN <<keys>>
    ELSE <<SubSeq(keys, 1, PageRecs)>> \o ISAMTree_initialize(SubSeq(keys, PageRecs + 1, Len(keys)))

\* generate_internal_levels: one entry per leaf page, its largest key and
\* its page number
generate_internal_levels(leaves) ==
    [i \in 1..Len(leaves) |-> [key |-> leaves[i][Len(leaves[i])], pnum |-> FirstLeafPnum + i - 1]]

\* search_internal_node_lower: the child of the first entry whose key is not
\* below the search key
RECURSIVE search_internal_node_lower(_, _, _)
search_internal_node_lower(node, i, key) ==
    IF i > Len(node) THEN INVALID_PNUM
    ELSE IF compare_func_key(node[i].key, key) >= 0 THEN node[i].pnum
    ELSE search_internal_node_lower(node, i + 1, key)

\* search_internal_node_upper: the child of the first entry whose key is
\* above the search key, or the last child when there is none
RECURSIVE search_internal_node_upper(_, _, _)
search_internal_node_upper(node, i, key) ==
    IF i >= Len(node) THEN node[Len(node)].pnum
    ELSE IF compare_func_key(node[i].key, key) > 0 THEN node[i].pnum
    ELSE search_internal_node_upper(node, i + 1, key)

\* ISAMTree::get_lower_bound
ISAMTree_get_lower_bound(leaves, key) ==
    search_internal_node_lower(generate_internal_levels(leaves), 1, key)

\* ISAMTree::get_upper_bound: the page the descent ends at; no page when that
\* is the first leaf page and its first key is above the search key.  This
\* is what the bounds tests expect: the last page for a key that is not
\* below the largest one (t_bounds_duplicates, t_bounds_lower_out_of_range),
\* no page for a key below the smallest one (t_bounds_upper_out_of_range),
\* and in t_bounds_general, for a key between the last page of 8s and the
\* first page of 15s, the first page of 15s.
ISAMTree_get_upper_bound(leaves, key) ==
    LET pnum == search_internal_node_upper(generate_internal_levels(leaves), 1, key)
        page == leaves[pnum - FirstLeafPnum + 1]
    IN IF pnum = FirstLeafPnum /\ compare_func_key(page[1], key) > 0 THEN INVALID_PNUM
       ELSE pnum

\* no sample range (the null pointer)
NoRange == [start_page |-> INVALID_PNUM, stop_page |-> INVALID_PNUM, record_count |-> 0]

\* ISAMTreeSampleRange::create for a tree of fixed-length records.  Page
\* numbers are unsigned words of PnumBits bits, so the difference of the page
\* numbers is taken modulo 2^PnumBits before it is widened for the product.
ISAMTreeSampleRange_create(leaves, lower_key, upper_key) ==
    LET start_page == ISAMTree_get_lower_bound(leaves, lower_key)
        stop_page == ISAMTree_get_upper_bound(leaves, upper_key)
        records_per_page == PageRecs
    IN IF stop_page < start_page \/ stop_page = INVALID_PNUM \/ start_page = INVALID_PNUM
       THEN NoRange
       ELSE LET record_for_last_page == Len(leaves[stop_page - FirstLeafPnum + 1])
            IN [start_page |-> start_page, stop_page |-> stop_page,
                record_count |-> ((stop_page - start_page - 1) % Pow(2, PnumBits))
                                     * records_per_page + record_for_last_page]

\* a tree built by ISAMTree::initialize
IsamInit ==
    /\ TreeInit
    /\ unit \in {[kind |-> "isam", leaves |-> ISAMTree_initialize(s), op |-> "initialize",
                  key |-> 0, lb |-> INVALID_PNUM, ub |-> INVALID_PNUM,
                  range |-> NoRange] : s \in SortedInputs}

\* get_lower_bound and get_upper_bound for one key
IsamBounds ==
    /\ unit.kind = "isam"
    /\ \E key \in ProbeKeys :
         unit' = [unit EXCEPT !.op = "bounds", !.key = key,
                              !.lb = ISAMTree_get_lower_bound(unit.leaves, key),
                              !.ub = ISAMTree_get_upper_bound(unit.leaves, key)]
    /\ UNCHANGED <<mt, levels, smp, gh>>

\* ISAMTreeSampleRange::create for one pair of keys
IsamCreate ==
    /\ unit.kind = "isam"
    /\ \E lower_key \in ProbeKeys, upper_key \in ProbeKeys :
         /\ lower_key <= upper_key
         /\ unit' = [unit EXCEPT !.op = "create", !.key = lower_key,
                                 !.range = ISAMTreeSampleRange_create(unit.leaves, lower_key,
                                                                      upper_key)]
    /\ UNCHANGED <<mt, levels, smp, gh>>

\* ------------------------------------------------------------------------
\* A run with its index, and the bounds MemoryLevel::get_sample_ranges asks
\* it for
\* ------------------------------------------------------------------------
\* the sorted keys of a run of 1 to MaxIndexRecs records
IndexInputs ==
    {KeysOfCounts(c, 1) : c \in {d \in [IsamKeys -> 0..MaxIndexRecs] :
                                    SumCounts(d, 1) \in 1..MaxIndexRecs}}

\* a run built by a constructor, which calls build_internal_levels
IndexInit ==
    /\ TreeInit
    /\ unit \in {[kind |-> "run",
                   run |-> [data |-> [i \in 1..Len(s) |-> Rec(s[i], 1, 0)], tscnt |-> 0,
                            bf |-> {}],
                   op |-> "build", low |-> 0, high |-> 0, low_pos |-> 0, high_pos |-> 0]
                 : s \in IndexInputs}

\* the body of the loop of MemoryLevel::get_sample_ranges for one run
IndexBounds ==
    /\ unit.kind = "run"
    /\ \E low \in ProbeKeys, high \in ProbeKeys :
         /\ low <= high
         /\ unit' = [unit EXCEPT !.op = "get_sample_ranges", !.low = low, !.high = high,
                                 !.low_pos = InMemRun_get_lower_bound(unit.run, low),
                                 !.high_pos = InMemRun_get_upper_bound(unit.run, high)]
    /\ UNCHANGED <<mt, levels, smp, gh>>

\* ------------------------------------------------------------------------
\* ISAMLevel: run_capacity slots that hold a run (the sorted keys of an
\* ISAMTree) or nothing, and the counters run_count and record_count.
\* ------------------------------------------------------------------------
\* an empty slot of runs (the null pointer), written as a sequence that is
\* no run: the keys of a run are positive
NoRun == <<0>>

\* the sorted records a run or an incoming iterator can hold
LevelRuns == {s \in SortedInputs : Len(s) <= MaxLevelRunLen}

\* ISAMLevel::ISAMLevel without files
EmptyISAMLevel(run_capacity, record_capacity) ==
    [run_capacity |-> run_capacity, record_capacity |-> record_capacity,
     runs |-> [i \in 1..run_capacity |-> NoRun], run_count |-> 0, record_count |-> 0]

\* the loop of ISAMLevel::emplace_run: the first empty slot from i on
RECURSIVE FirstFreeSlot(_, _)
FirstFreeSlot(L, i) ==
    IF i > L.run_capacity THEN 0
    ELSE IF L.runs[i] = NoRun THEN i ELSE FirstFreeSlot(L, i + 1)

\* ISAMLevel::emplace_run
ISAMLevel_emplace_run(L, run) ==
    IF L.run_count = L.run_capacity \/ FirstFreeSlot(L, 1) = 0 THEN [level |-> L, ret |-> 0]
    ELSE [level |-> [L EXCEPT !.runs[FirstFreeSlot(L, 1)] = run,
                              !.run_count = @ + 1,
                              !.record_count = @ + Len(run)],
          ret |-> 1]

\* ISAMLevel::can_merge_with(size_t)
ISAMLevel_can_merge_with(L, incoming_record_count) ==
    IF L.run_count < L.run_capacity THEN TRUE
    ELSE L.run_capacity = 1 /\ L.record_count + incoming_record_count <= L.record_capacity

\* ISAMLevel::truncate
ISAMLevel_truncate(L) ==
    [L EXCEPT !.runs = [i \in 1..L.run_capacity |-> NoRun],
              !.run_count = 0, !.record_count = 0]

\* the records a MergeIterator over two sorted inputs yields, which
\* ISAMTree::create stores in order
RECURSIVE MergeIterator(_, _)
MergeIterator(a, b) ==
    IF a = <<>> THEN b
    ELSE IF b = <<>> THEN a
    ELSE IF compare_func_key(Head(a), Head(b)) <= 0
         THEN <<Head(a)>> \o MergeIterator(Tail(a), b)
         ELSE <<Head(b)>> \o MergeIterator(a, Tail(b))

\* ISAMLevel::merge_with(sorted_itr, tombstone_count).  supports is what
\* supports_element_count() returns and created is FALSE when
\* ISAMTree::create returns no tree.
ISAMLevel_merge_with(L, sorted_itr, supports, created) ==
    IF ~supports THEN [level |-> L, ret |-> 0]
    ELSE IF ~ISAMLevel_can_merge_with(L, Len(sorted_itr)) THEN [level |-> L, ret |-> 0]
    ELSE IF ~created THEN [level |-> L, ret |-> 0]
    ELSE [level |-> ISAMLevel_emplace_run(
                        ISAMLevel_truncate(L),
                        MergeIterator(IF L.runs[1] # NoRun THEN L.runs[1] ELSE <<>>,
                                      sorted_itr)).level,
          ret |-> 1]

\* a level after its constructor, for a run capacity of 1 (leveling) or more
LevelInit ==
    /\ TreeInit
    /\ unit \in {[kind |-> "isamlevel", level |-> EmptyISAMLevel(rc, MaxLevelRecords),
                  op |-> "new", ret |-> 1, n |-> 0,
                  pre |-> EmptyISAMLevel(rc, MaxLevelRecords), incoming |-> <<>>]
                 : rc \in 1..MaxRunCap}

\* a call of emplace_run
LevelEmplace ==
    /\ unit.kind = "isamlevel"
    /\ unit.n < MaxLevelOps
    /\ \E run \in LevelRuns :
         LET r == ISAMLevel_emplace_run(unit.level, run)
         IN unit' = [unit EXCEPT !.level = r.level, !.ret = r.ret, !.op = "emplace_run",
                                 !.n = @ + 1, !.pre = unit.level, !.incoming = run]
    /\ UNCHANGED <<mt, levels, smp, gh>>

\* a call of merge_with
LevelMerge ==
    /\ unit.kind = "isamlevel"
    /\ unit.n < MaxLevelOps
    /\ \E sorted_itr \in LevelRuns, supports \in BOOLEAN, created \in BOOLEAN :
         LET r == ISAMLevel_merge_with(unit.level, sorted_itr, supports, created)
         IN unit' = [unit EXCEPT !.level = r.level, !.ret = r.ret, !.op = "merge_with",
                                 !.n = @ + 1, !.pre = unit.level, !.incoming = sorted_itr]
    /\ UNCHANGED <<mt, levels, smp, gh>>

\* a call of truncate
LevelTruncate ==
    /\ unit.kind = "isamlevel"
    /\ unit.n < MaxLevelOps
    /\ unit' = [unit EXCEPT !.level = ISAMLevel_truncate(unit.level), !.ret = 1,
                            !.op = "truncate", !.n = @ + 1, !.pre = unit.level,
                            !.incoming = <<>>]
    /\ UNCHANGED <<mt, levels, smp, gh>>

\* ------------------------------------------------------------------------
\* A memtable that several threads append to.  Every atomic operation and
\* every store of an append is one step of the thread that makes it; pc is
\* the statement a thread is at, pos the slot it holds, ret its last return
\* value (-1 before the first).  A slot holds "none" (never written, or an
\* invalid io::Record), "rec" (a record written since the last truncate),
\* "stale" (a record written before it) or "torn" (a record that a thread
\* is storing).  wins lists the slots of the appends that returned 1 since
\* the last truncate.
\* ------------------------------------------------------------------------
Threads == 1..NumThreads

Slots == 0..(ConcCap - 1)

IdleThread == [pc |-> "idle", ts |-> FALSE, pos |-> 0, ret |-> -1]

NoRead == [n |-> 0, i |-> 0, got |-> "none", valid |-> FALSE]

\* the three memtables after construction
EmptyConc(impl) ==
    [kind |-> "conc", impl |-> impl, tail |-> 0, reccnt |-> 0, tscnt |-> 0,
     filter |-> FALSE, weight |-> 0, max_weight |-> 0,
     slots |-> [i \in Slots |-> "none"], tree |-> <<>>,
     th |-> [t \in Threads |-> IdleThread],
     wins |-> <<>>, read |-> NoRead, calls |-> 0]

\* the return of an append of thread t
ConcReturn(c, t, ret) ==
    [c EXCEPT !.th[t].pc = "idle", !.th[t].ret = ret,
              !.wins = IF ret = 1 THEN Append(@, c.th[t].pos) ELSE @]

\* one step of MemTable::append (MemTable.h) by thread t
MemTable_append_step(c, t) ==
    LET me == c.th[t]
    IN CASE me.pc = "start" ->
              IF me.ts /\ c.tscnt + 1 > TsCap THEN ConcReturn(c, t, 0)
              ELSE [c EXCEPT !.th[t].pc = "advance"]
         [] me.pc = "advance" ->
              IF c.tail < ConcCap
              THEN [c EXCEPT !.tail = @ + 1, !.th[t].pos = c.tail, !.th[t].pc = "layout"]
              ELSE ConcReturn([c EXCEPT !.tail = @ + 1], t, 0)
         [] me.pc = "layout" ->
              [c EXCEPT !.slots[me.pos] = "torn", !.th[t].pc = "layout_end"]
         [] me.pc = "layout_end" ->
              [c EXCEPT !.slots[me.pos] = "rec",
                        !.th[t].pc = IF me.ts THEN "tscnt" ELSE "reccnt"]
         [] me.pc = "tscnt" ->
              [c EXCEPT !.tscnt = @ + 1, !.th[t].pc = "filter"]
         [] me.pc = "filter" ->
              [c EXCEPT !.filter = TRUE, !.th[t].pc = "reccnt"]
         [] me.pc = "reccnt" ->
              ConcReturn([c EXCEPT !.reccnt = @ + 1], t, 1)

\* one step of UnsortedMemTable::insert by thread t; create_record_at
\* fills the bytes of the slot in data_array, finalize_insertion stores the
\* io::Record that points at them in table
Unsorted_insert_step(c, t) ==
    LET me == c.th[t]
    IN CASE me.pc = "start" ->
              IF c.tail < ConcCap
              THEN [c EXCEPT !.tail = @ + 1, !.th[t].pos = c.tail, !.th[t].pc = "create"]
              ELSE ConcReturn([c EXCEPT !.tail = @ + 1], t, 0)
         [] me.pc = "create" ->
              [c EXCEPT !.th[t].pc = IF me.ts THEN "tscnt" ELSE "finalize"]
         [] me.pc = "tscnt" ->
              [c EXCEPT !.tscnt = @ + 1, !.th[t].pc = "filter"]
         [] me.pc = "filter" ->
              [c EXCEPT !.filter = TRUE, !.th[t].pc = "finalize"]
         [] me.pc = "finalize" ->
              [c EXCEPT !.slots[me.pos] = "torn", !.th[t].pc = "finalize_end"]
         [] me.pc = "finalize_end" ->
              ConcReturn([c EXCEPT !.slots[me.pos] = "rec"], t, 1)

\* one step of MemTable::append (MemTableBTree.h) by thread t; the insert
\* into the tree is one step
BTree_append_step(c, t) ==
    LET me == c.th[t]
    IN CASE me.pc = "start" ->
              IF c.reccnt >= ConcCap THEN ConcReturn(c, t, 0)
              ELSE [c EXCEPT !.th[t].pos = c.reccnt,
                             !.th[t].pc = IF me.ts THEN "tscap" ELSE "insert"]
         [] me.pc = "tscap" ->
              IF c.tscnt + 1 > TsCap THEN ConcReturn(c, t, 0)
              ELSE [c EXCEPT !.th[t].pc = "insert"]
         [] me.pc = "insert" ->
              [c EXCEPT !.tree = Append(@, me.pos),
                        !.th[t].pc = IF me.ts THEN "tscnt" ELSE "reccnt"]
         [] me.pc = "tscnt" ->
              [c EXCEPT !.tscnt = @ + 1, !.th[t].pc = "filter"]
         [] me.pc = "filter" ->
              [c EXCEPT !.filter = TRUE, !.th[t].pc = "reccnt"]
         [] me.pc = "reccnt" ->
              [c EXCEPT !.reccnt = @ + 1, !.th[t].pc = "weight"]
         [] me.pc = "weight" ->
              [c EXCEPT !.weight = @ + 1, !.th[t].pc = "max_weight"]
         [] me.pc = "max_weight" ->
              ConcReturn([c EXCEPT !.max_weight = 1], t, 1)

\* truncate of the three memtables, called when no append is in flight:
\* MemTable.h leaves the buffer as it is, UnsortedMemTable replaces the
\* table by invalid records, the tree is cleared
Conc_truncate(c) ==
    [EmptyConc(c.impl) EXCEPT
        !.slots = [i \in Slots |-> IF c.impl = "MemTable" /\ c.slots[i] # "none"
                                   THEN "stale" ELSE "none"],
        !.th = c.th, !.read = c.read, !.calls = c.calls]

\* the record count a reader observes
Conc_get_record_count(c) ==
    IF c.impl = "Unsorted" THEN (IF c.tail < ConcCap THEN c.tail ELSE ConcCap)
    ELSE c.reccnt

\* io::Record::is_valid on what a reader finds in a slot of table: a stored
\* record is valid and an empty one is not; a read that overlaps the store
\* of the record is a data race and may give either
is_valid(slot) == IF slot = "torn" THEN BOOLEAN ELSE {slot = "rec"}

\* what a reader gets at index i and whether it takes it for a record:
\* MemTable.h has no mark of validity, UnsortedMemTable readers test
\* is_valid, and the tree holds inserted records only
ConcReads(c, i) ==
    IF c.impl = "MemTable" THEN {[got |-> c.slots[i], valid |-> TRUE]}
    ELSE IF c.impl = "Unsorted"
    THEN {[got |-> c.slots[i], valid |-> v] : v \in is_valid(c.slots[i])}
    ELSE {[got |-> "rec", valid |-> TRUE]}

ConcInit ==
    /\ TreeInit
    /\ unit \in {EmptyConc(impl) : impl \in Kinds}

\* a thread calls append
ConcCall ==
    /\ unit.kind = "conc"
    /\ unit.calls < MaxConcCalls
    /\ \E t \in Threads, ts \in BOOLEAN :
         /\ unit.th[t].pc = "idle"
         /\ unit' = [unit EXCEPT !.th[t].pc = "start", !.th[t].ts = ts, !.calls = @ + 1]
    /\ UNCHANGED <<mt, levels, smp, gh>>

\* a thread inside append takes its next step
ConcStep ==
    /\ unit.kind = "conc"
    /\ \E t \in Threads :
         /\ unit.th[t].pc # "idle"
         /\ unit' = IF unit.impl = "MemTable" THEN MemTable_append_step(unit, t)
                    ELSE IF unit.impl = "Unsorted" THEN Unsorted_insert_step(unit, t)
                    ELSE BTree_append_step(unit, t)
    /\ UNCHANGED <<mt, levels, smp, gh>>

ConcTruncate ==
    /\ unit.kind = "conc"
    /\ \A t \in Threads : unit.th[t].pc = "idle"
    /\ unit.wins # <<>>
    /\ unit' = Conc_truncate(unit)
    /\ UNCHANGED <<mt, levels, smp, gh>>

\* a sampler or a scan observes the record count and reads below it
ConcRead ==
    /\ unit.kind = "conc"
    /\ \E i \in Slots :
         /\ i < Conc_get_record_count(unit)
         /\ \E r \in ConcReads(unit, i) :
              unit' = [unit EXCEPT !.read = [n |-> Conc_get_record_count(unit), i |-> i,
                                             got |-> r.got, valid |-> r.valid]]
    /\ UNCHANGED <<mt, levels, smp, gh>>

\* ------------------------------------------------------------------------
\* Specifications: Spec is the write path, SampleSpec adds range_sample,
\* MemTableSpec is a memtable used directly, PersistSpec persists a level of
\* the tree and loads it again, DeleteSpec adds delete_record,
\* IsamSpec looks pages up in an ISAM tree, IndexSpec looks keys up in the
\* index of a run, LevelSpec calls an ISAMLevel, ConcSpec appends to a
\* memtable from several threads
\* ------------------------------------------------------------------------
Next == AppendStep(MaxAppends)

Spec == Init /\ [][Next]_vars

DeepNext == DeepAppend

DeepSpec == Init /\ [][DeepNext]_vars

\* ------------------------------------------------------------------------
\* The two memtables of the tree and the busy-wait at the start of append
\* and range_sample.  unit holds active_memtable, the two merging flags and
\* the position pc of the caller; last names the call whose wait ended.
\* ------------------------------------------------------------------------
TreeMemtables ==
    [kind |-> "memtables", active_memtable |-> FALSE,
     memtable_1_merging |-> FALSE, memtable_2_merging |-> FALSE,
     pc |-> "idle", key |-> 1, value |-> 1, ts |-> FALSE, last |-> "none"]

\* memtable() that reports no memtable unless both are merging
memtable_negated(u) ==
    IF ~(u.memtable_1_merging /\ u.memtable_2_merging) THEN "null"
    ELSE IF u.active_memtable THEN "memtable_2" ELSE "memtable_1"

\* LSMTree::memtable
memtable(u) ==
    IF u.memtable_1_merging /\ u.memtable_2_merging THEN "null"
    ELSE IF u.active_memtable THEN "memtable_2" ELSE "memtable_1"

WaitInit ==
    /\ TreeInit
    /\ unit = TreeMemtables

\* a caller enters LSMTree::append
CallAppend ==
    /\ unit.pc = "idle"
    /\ smp.pc = "idle"
    /\ gh.appends < MaxWaitAppends
    /\ \E k \in Keys, v \in Vals, ts \in BOOLEAN :
         unit' = [unit EXCEPT !.pc = "append_wait", !.key = k, !.value = v, !.ts = ts]
    /\ UNCHANGED <<mt, levels, smp, gh>>

\* one evaluation of the loop condition of LSMTree::append and, when
\* memtable() is not null, the rest of the call.  No statement of the tree
\* writes active_memtable, so the memtable returned is memtable_1 (mt).
AppendPoll ==
    /\ unit.pc = "append_wait"
    /\ IF memtable(unit) = "null" THEN UNCHANGED vars
       ELSE /\ \E g \in (IF is_full(mt) /\ HasEmptyRun(levels) THEN Garbage
                          ELSE {Rec(1, 1, 0)}) :
                   LSM_append(unit.key, unit.value, unit.ts, g)
            /\ unit' = [unit EXCEPT !.pc = "idle", !.last = "append"]
            /\ smp' = smp

\* a caller enters LSMTree::range_sample
CallSample ==
    /\ unit.pc = "idle"
    /\ smp.pc = "idle"
    /\ unit' = [unit EXCEPT !.pc = "sample_wait"]
    /\ UNCHANGED <<mt, levels, smp, gh>>

\* one evaluation of the loop condition of LSMTree::range_sample and, when
\* memtable() is not null, the call up to the start of the rejection loop,
\* where it aborts when get_sample_ranges meets a run without an index
SamplePoll ==
    /\ unit.pc = "sample_wait"
    /\ IF memtable(unit) = "null" THEN UNCHANGED vars
       ELSE /\ \/ SampleStart
               \/ /\ HasEmptyRun(levels)
                  /\ smp' = [smp EXCEPT !.pc = "crashed"]
            /\ unit' = [unit EXCEPT !.pc = "idle", !.last = "range_sample"]
            /\ UNCHANGED <<mt, levels, gh>>

\* the call aborts inside its rejection loop
LoopAbort ==
    /\ smp.pc = "loop"
    /\ SampleAbort

WaitNext ==
    \/ CallAppend
    \/ AppendPoll
    \/ CallSample
    \/ SamplePoll
    \/ SamplePass
    \/ LoopAbort
    \/ SampleReturn

\* the thread of the caller keeps running, so a loop condition that is
\* waiting to be evaluated is evaluated
WaitSpec ==
    WaitInit /\ [][WaitNext]_vars /\ WF_vars(AppendPoll) /\ WF_vars(SamplePoll)

SampleNext ==
    \/ AppendStep(MaxSampleAppends)
    \/ SampleBegin
    \/ SamplePass
    \/ SampleAbort
    \/ SampleReturn

SampleSpec == Init /\ [][SampleNext]_vars

MemTableNext ==
    \/ UnitAppend
    \/ UnitTruncate
    \/ UnitOpenReader
    \/ UnitEndScan
    \/ UnitCheckTombstone

MemTableSpec == UnitInit /\ [][MemTableNext]_vars

PersistNext ==
    \/ PersistAppend
    \/ PersistLevel
    \/ LoadLevel

PersistSpec == Init /\ [][PersistNext]_vars

DeleteNext ==
    \/ DeleteAppend
    \/ DeleteRecord

DeleteSpec == Init /\ [][DeleteNext]_vars

IsamNext ==
    \/ IsamBounds
    \/ IsamCreate

IsamSpec == IsamInit /\ [][IsamNext]_vars

IndexNext == IndexBounds

IndexSpec == IndexInit /\ [][IndexNext]_vars

ConcNext ==
    \/ ConcCall
    \/ ConcStep
    \/ ConcTruncate
    \/ ConcRead

ConcSpec == ConcInit /\ [][ConcNext]_vars

LevelNext ==
    \/ LevelEmplace
    \/ LevelMerge
    \/ LevelTruncate

LevelSpec == LevelInit /\ [][LevelNext]_vars

\* ------------------------------------------------------------------------
\* Observers
\* ------------------------------------------------------------------------
RECURSIVE SumLevels(_, _)
SumLevels(lv, tsOnly) ==
    IF lv = <<>> THEN 0
    ELSE (IF tsOnly THEN get_tombstone_count(Head(lv)) ELSE get_record_cnt(Head(lv)))
         + SumLevels(Tail(lv), tsOnly)

\* LSMTree::get_record_cnt
LSM_get_record_cnt == get_record_count(mt) + SumLevels(levels, FALSE)

\* LSMTree::get_tombstone_cnt
LSM_get_tombstone_cnt == mt.tscnt + SumLevels(levels, TRUE)

\* LSMTree::get_height
get_height == Len(levels)

\* LSMTree::validate_tombstone_proportion
validate_tombstone_proportion ==
    \A i \in 1..Len(levels) : ~OverTombstoneMax(levels[i], i - 1)

\* ------------------------------------------------------------------------
\* Live records: stored, not delete-tagged and not shadowed by a newer
\* tombstone (a later memtable slot; for a record of a run the memtable, a
\* shallower level or a newer run of its level)
\* ------------------------------------------------------------------------
RunHasTs(r, kv) == \E x \in 1..Len(r.data) : record_match(r.data[x], kv[1], kv[2], TRUE)

RunHasRec(r, kv) ==
    \E x \in 1..Len(r.data) :
        record_match(r.data[x], kv[1], kv[2], FALSE) /\ ~get_delete_status(r.data[x])

MtHasTs(kv) == \E i \in 1..Len(mt.data) : record_match(mt.data[i], kv[1], kv[2], TRUE)

ShallowerTs(l, kv) ==
    \E l2 \in 1..(l - 1) : \E j2 \in 1..Len(levels[l2]) : RunHasTs(levels[l2][j2], kv)

NewerRunTs(l, j, kv) == \E j2 \in (j + 1)..Len(levels[l]) : RunHasTs(levels[l][j2], kv)

LiveInMemtable(kv) ==
    \E i \in 1..Len(mt.data) :
        /\ record_match(mt.data[i], kv[1], kv[2], FALSE)
        /\ ~\E j \in (i + 1)..Len(mt.data) : record_match(mt.data[j], kv[1], kv[2], TRUE)

LiveInRun(l, j, kv) ==
    /\ RunHasRec(levels[l][j], kv)
    /\ ~MtHasTs(kv)
    /\ ~ShallowerTs(l, kv)
    /\ ~NewerRunTs(l, j, kv)

LiveSet ==
    {kv \in KV : \/ LiveInMemtable(kv)
                 \/ \E l \in 1..Len(levels) : \E j \in 1..Len(levels[l]) : LiveInRun(l, j, kv)}

LiveInRange(lo, hi) == \E kv \in LiveSet : lo <= kv[1] /\ kv[1] <= hi

\* the call has passed its entry
Sampling == smp.pc # "idle"

\* ------------------------------------------------------------------------
\* Claims
\* ------------------------------------------------------------------------

\* C1: every record range_sample has written to the output buffer has
\* lo <= key <= hi and is not a tombstone, whether it was drawn from a
\* memtable slot or from a run.
C1_InRangeNoTombstone ==
    \A i \in 1..Len(smp.out) :
        /\ smp.lo <= smp.out[i].rec.key
        /\ smp.out[i].rec.key <= smp.hi
        /\ ~is_tombstone(smp.out[i].rec)

\* a finished call that returned a memtable record and a record of a run
\* while the tree held a key outside the interval
C1_Witness ==
    /\ smp.pc = "done"
    /\ Len(smp.out) = 2
    /\ \E i, j \in 1..2 : smp.out[i].rid = INVALID_RID /\ smp.out[j].rid # INVALID_RID
    /\ \E i \in 1..Len(mt.data) : mt.data[i].key < smp.lo \/ mt.data[i].key > smp.hi

\* C2: no record range_sample returns is logically deleted: its delete tag
\* is clear and no tombstone with its (key, value) is in the memtable, in a
\* level shallower than the record's level or in a newer run of its level.
LogicallyDeleted(e) ==
    LET kv == <<e.rec.key, e.rec.value>>
    IN \/ get_delete_status(e.rec)
       \/ MtHasTs(kv)
       \/ /\ e.rid # INVALID_RID
          /\ \/ ShallowerTs(e.rid.level_idx + 1, kv)
             \/ NewerRunTs(e.rid.level_idx + 1, e.rid.run_idx + 1, kv)

C2_NoDeletedReturned == \A i \in 1..Len(smp.out) : ~LogicallyDeleted(smp.out[i])

\* some draw of the next pass can be accepted
CanAccept == \E c \in Candidates, u \in ReadOutcomes : Accepts(c, u[1], u[2])

\* C3: with a live record in [lo, hi] range_sample returns having written
\* exactly k records: each pass draws k minus the accepted count, the
\* accepted count never exceeds k, the call does not abort, and the loop can
\* always accept a draw (the tree does not change during the call, so a loop
\* that cannot accept any draw never returns).
C3_ReturnsExactlyK ==
    /\ Len(smp.out) <= smp.k
    /\ smp.pc = "loop" => smp.rejections = smp.k - Len(smp.out)
    /\ (Sampling /\ LiveInRange(smp.lo, smp.hi)) =>
          /\ smp.pc # "crashed"
          /\ smp.pc = "done" => Len(smp.out) = smp.k
          /\ smp.pc = "loop" => CanAccept

\* C4: when no live record lies in [lo, hi], range_sample(k >= 1) returns
\* without writing a record.  Past its entry the call is then finished with
\* an empty output; a call that is in the rejection loop can leave it only
\* by writing k records.
C4_EmptyRangeReturns ==
    (Sampling /\ smp.k >= 1 /\ ~LiveInRange(smp.lo, smp.hi)) =>
        (smp.pc = "done" /\ smp.out = <<>>)

\* C5: when a (key, value) is deleted only while live (and inserted only
\* while not live), the live records of the tree after every append are the
\* inserted records minus the deleted ones.
C5_LiveSetPreserved ==
    (gh.legal /\ gh.uniq) => LiveSet = {kv \in KV : gh.net[kv] > 0}

\* C6: after every append every level l has
\* tombstones(l) / (C * s^(l+1)) <= tau_max.
C6_TombstoneProportion == validate_tombstone_proportion

\* the tombstone maximum was enforced: level 0 was merged down right after
\* a flush, and its tombstones are now in level 1
C6_Witness ==
    /\ Len(levels) >= 2
    /\ levels[1] = <<>>
    /\ get_tombstone_count(levels[2]) > 0

\* C7: no tombstone lies in a level strictly deeper than a record with the
\* same (key, value); stated here for the workloads that never insert a
\* (key, value) after a tombstone for it was appended.
TombstoneBelowRecord ==
    \E i \in 1..Len(levels), j \in 1..Len(levels) :
        /\ i < j
        /\ \E a \in 1..Len(levels[i]), b \in 1..Len(levels[j]) :
              \E kv \in KV : RunHasRec(levels[i][a], kv) /\ RunHasTs(levels[j][b], kv)

C7_TombstoneOrdering == ~gh.reins => ~TombstoneBelowRecord

\* C8: without tombstone appends, get_record_cnt() is the number of appends
\* that returned 1.
C8_RecordCount == gh.tscalls = 0 => LSM_get_record_cnt = gh.ok

\* a tombstone-free history with a flush and a merge of level 0 into level 1
C8_Witness ==
    /\ gh.tscalls = 0
    /\ Len(levels) >= 2
    /\ get_record_cnt(levels[2]) > 0
    /\ get_record_count(mt) > 0

\* C9: get_tombstone_cnt() is the number of tombstone appends that returned
\* 1 minus the number of cancelled record/tombstone pairs.
C9_TombstoneCount == LSM_get_tombstone_cnt = gh.tsok - gh.canc

\* C10: append of a non-tombstone record returns 1.
C10_AppendReturnsOne == (gh.appends > 0 /\ ~gh.ts) => gh.ret = 1

\* a record appended by the call that found the memtable full and flushed it
C10_Witness ==
    /\ ~gh.ts
    /\ gh.ret = 1
    /\ gh.appends > MemCap
    /\ get_record_count(mt) = 1
    /\ Len(levels) >= 1

\* C11: a completed append is visible to the samples that follow: when
\* range_sample(lo, hi, k >= 1) enters its rejection loop, every live record
\* with key in [lo, hi] -- the newest record of the memtable included -- is
\* the record of some draw that the loop accepts.
C11_AppendVisible ==
    (smp.pc = "loop" /\ smp.passes = 0) =>
        \A kv \in LiveSet :
            (smp.lo <= kv[1] /\ kv[1] <= smp.hi) =>
                \E c \in Candidates, u \in ReadOutcomes :
                    /\ Accepts(c, u[1], u[2])
                    /\ record_match(CandRecord(c), kv[1], kv[2], FALSE)

WouldExceed ==
    \/ UnitRecordCount = MemCap
    \/ unit'.op.ts /\ unit.kind # "Unsorted" /\ UnitTombstoneCount + 1 > TsCap

\* C13: the record count of a memtable never exceeds its capacity and its
\* tombstone count never exceeds its tombstone capacity, and an append that
\* would exceed either returns 0 and stores nothing.
C13_MemTableBounds ==
    /\ [](/\ UnitRecordCount <= MemCap
          /\ Len(UnitRecords) <= MemCap
          /\ unit.kind # "Unsorted" => UnitTombstoneCount <= TsCap)
    /\ [][(unit'.op.name = "append" /\ unit'.n = unit.n + 1 /\ WouldExceed)
            => (unit'.ret = 0 /\ UnitRecords' = UnitRecords
                /\ UnitRecordCount' = UnitRecordCount
                /\ UnitTombstoneCount' = UnitTombstoneCount)]_vars

\* a full memtable holding as many tombstones as its tombstone capacity
\* allows has refused an append
C13_Witness ==
    /\ unit.kind = "MemTable"
    /\ unit.op.name = "append"
    /\ unit.ret = 0
    /\ UnitRecordCount = MemCap
    /\ UnitTombstoneCount = TsCap

\* C14: while a reader pin is held, truncate returns false and leaves the
\* records, the tail and the tombstone count unchanged (UnsortedMemTable is
\* the memtable that counts reader pins).
C14_TruncatePinned ==
    [][(/\ unit'.op.name = "truncate"
        /\ unit'.n = unit.n + 1
        /\ unit.kind = "Unsorted"
        /\ unit.obj.thread_pins > 0)
          => (/\ unit'.ret = 0
              /\ unit'.obj.table = unit.obj.table
              /\ unit'.obj.current_tail = unit.obj.current_tail
              /\ unit'.obj.tombstones = unit.obj.tombstones)]_vars

\* truncate was refused on a pinned table that holds a tombstone
C14_Witness ==
    /\ unit.kind = "Unsorted"
    /\ unit.op.name = "truncate"
    /\ unit.ret = 0
    /\ unit.obj.thread_pins > 0
    /\ unit.obj.tombstones > 0

\* C15: a successful truncate leaves the memtable empty (record count 0,
\* tombstone count 0, tail 0, no records, tombstone filter cleared), and a
\* second truncate right after it changes nothing.
C15_TruncateEmpties ==
    (unit.kind # "none" /\ unit.op.name = "truncate" /\ unit.ret = 1) =>
        /\ unit.obj = EmptyOf(unit.kind)
        /\ UnitRecordCount = 0
        /\ UnitTombstoneCount = 0
        /\ UnitRecords = <<>>
        /\ TruncateCall(unit.kind, unit.obj) = [obj |-> unit.obj, ret |-> 1]

\* a full memtable that had refused an append was truncated
C15_Witness ==
    /\ unit.kind = "MemTable"
    /\ unit.op.name = "truncate"
    /\ unit.ret = 1
    /\ unit.pre = MemCap
    /\ unit.n = MemCap + 2

\* records in non-decreasing (key, value) order
SortedByKeyValue(s) ==
    \A i \in 1..(Len(s) - 1) : ~lt(s[i + 1], s[i].key, s[i].value)

RECURSIVE CountRec(_, _)
CountRec(s, r) ==
    IF s = <<>> THEN 0
    ELSE (IF Head(s) = r THEN 1 ELSE 0) + CountRec(Tail(s), r)

\* number of records equal to r over the runs of a level
RECURSIVE CountInRuns(_, _)
CountInRuns(runs, r) ==
    IF runs = <<>> THEN 0
    ELSE CountRec(Head(runs).data, r) + CountInRuns(Tail(runs), r)

\* merged is the multiset union of the records of runs minus cancelled
\* record/tombstone pairs, and its counters say what it stores
MergeIsUnionMinusPairs(runs, merged) ==
    LET dropped(k, v, h) == CountInRuns(runs, Rec(k, v, h)) - CountRec(merged.data, Rec(k, v, h))
    IN /\ \A kv \in KV :
             /\ \A h \in 0..3 : dropped(kv[1], kv[2], h) >= 0
             /\ dropped(kv[1], kv[2], 0) + dropped(kv[1], kv[2], 2)
                   = dropped(kv[1], kv[2], 1) + dropped(kv[1], kv[2], 3)
       /\ Len(merged.data) = get_record_cnt(runs) - 2 * merged.canc
       /\ merged.tscnt = Cardinality({i \in 1..Len(merged.data) : is_tombstone(merged.data[i])})

\* the contents the first slot of an empty input run may have at a merge
MergeReads(runs) ==
    IF \E j \in 1..Len(runs) : runs[j].data = <<>> THEN Garbage ELSE {Rec(1, 1, 0)}

\* C17: the run built by merging the runs of a level holds exactly the
\* multiset union of their records minus the cancelled record/tombstone
\* pairs; its record count is the sum of the input counts minus twice the
\* number of cancelled pairs and its tombstone count is the number of
\* tombstones it stores.
C17_MergeMultiset ==
    \A l \in 1..Len(levels) :
        levels[l] # <<>> =>
            \A g \in MergeReads(levels[l]) :
                MergeIsUnionMinusPairs(levels[l], InMemRun_from_runs(levels[l], g))

\* C18: a memory level that was persisted and then constructed from the meta
\* file, with a run capacity of at least its run count, has the same run
\* count, record count and tombstone count and the same record at every
\* position of every run.
C18_PersistRoundTrip ==
    (unit.kind = "level" /\ unit.pc = "loaded") =>
        /\ unit.ok
        /\ Len(unit.runs) = Len(levels[unit.lvl])
        /\ get_record_cnt(unit.runs) = get_record_cnt(levels[unit.lvl])
        /\ get_tombstone_count(unit.runs) = get_tombstone_count(levels[unit.lvl])
        /\ \A j \in 1..Len(unit.runs) : unit.runs[j].data = levels[unit.lvl][j].data

\* the records of the levels that match (k, v) and are no tombstone, as
\* <<level, run, position>>
LevelMatches(lv, k, v) ==
    UNION {UNION {{<<i, j, n>> : n \in {m \in 1..Len(lv[i][j].data) :
                                          record_match(lv[i][j].data[m], k, v, FALSE)}} :
                  j \in 1..Len(lv[i])} :
           i \in 1..Len(lv)}

\* C19: delete_record(key, val) sets the delete bit on a matching record of
\* the levels and returns 1; when no level holds a matching record a
\* tombstone for (key, val) is inserted into the memtable.
C19_TaggedDelete ==
    unit.kind = "delete" =>
        IF LevelMatches(unit.lv, unit.key, unit.value) # {}
        THEN /\ unit.ret = 1
             /\ mt = unit.mt
             /\ \E p \in LevelMatches(unit.lv, unit.key, unit.value) :
                  levels = [unit.lv EXCEPT ![p[1]][p[2]].data[p[3]] = set_delete_status(@)]
        ELSE /\ levels = unit.lv
             /\ mt.tscnt = unit.mt.tscnt + 1
             /\ \E n \in 1..Len(mt.data) : record_match(mt.data[n], unit.key, unit.value, TRUE)

\* the page numbers of the leaf pages that hold a key >= key
PagesWithGE(leaves, key) ==
    {FirstLeafPnum + i - 1 : i \in {j \in 1..Len(leaves) : \E n \in 1..Len(leaves[j]) : leaves[j][n] >= key}}

\* the page numbers of the leaf pages that hold a key <= key
PagesWithLE(leaves, key) ==
    {FirstLeafPnum + i - 1 : i \in {j \in 1..Len(leaves) : \E n \in 1..Len(leaves[j]) : leaves[j][n] <= key}}

SetMin(S) == CHOOSE x \in S : \A y \in S : x <= y

SetMax(S) == CHOOSE x \in S : \A y \in S : x >= y

\* C20: get_lower_bound(key) is the first leaf page that holds a key >= key,
\* get_upper_bound(key) the last leaf page that holds a key <= key, and each
\* is the invalid page when no page holds such a key.
C20_IsamBounds ==
    (unit.kind = "isam" /\ unit.op = "bounds") =>
        LET lbs == PagesWithGE(unit.leaves, unit.key)
            ubs == PagesWithLE(unit.leaves, unit.key)
        IN /\ unit.lb = (IF lbs = {} THEN INVALID_PNUM ELSE SetMin(lbs))
           /\ unit.ub = (IF ubs = {} THEN INVALID_PNUM ELSE SetMax(ubs))

\* C21: for a record of a run that is no tombstone and carries no delete tag,
\* is_deleted reports exactly the tombstones that are newer than the record:
\* it is true when a matching tombstone is in the memtable, in a run of a
\* shallower level or in a newer run of the record's level, and false
\* otherwise (a tombstone in an older run or in the record's own run does not
\* count).  The reads are the ones the run contents determine.
C21_IsDeletedProbes ==
    \A l \in 1..Len(levels) : \A j \in 1..Len(levels[l]) :
        \A x \in 1..Len(levels[l][j].data) :
            LET rec == levels[l][j].data[x]
                kv == <<rec.key, rec.value>>
                rid == [level_idx |-> l - 1, run_idx |-> j - 1]
            IN (~is_tombstone(rec) /\ ~get_delete_status(rec)) =>
                  (is_deleted(rec, rid, FALSE, FALSE)
                     <=> (MtHasTs(kv) \/ ShallowerTs(l, kv) \/ NewerRunTs(l, j, kv)))

\* C22: an append that finds the memtable unable to take the record, because
\* its record count is at the capacity or, for a tombstone, its tombstone
\* count is at the tombstone capacity, flushes the memtable and then
\* succeeds: it returns 1 and the record is the only one of the memtable.
C22_FlushWhenRefused ==
    [][(gh'.appends = gh.appends + 1
        /\ (is_full(mt) \/ (gh'.ts /\ mt.tscnt + 1 > TsCap)))
       => (gh'.ret = 1 /\ Len(mt'.data) = 1 /\ is_tombstone(mt'.data[1]) = gh'.ts)]_vars

\* the merge_levels calls that the merge_down call logged just before
\* position n makes itself, in order, as <<base, incoming>>; depth counts the
\* merge_down calls entered on the way that have not returned
RECURSIVE OwnMerges(_, _, _, _)
OwnMerges(log, n, depth, acc) ==
    IF n > Len(log) THEN acc
    ELSE IF log[n].ev = "merge_down" THEN OwnMerges(log, n + 1, depth + 1, acc)
    ELSE IF log[n].ev = "return"
         THEN (IF depth = 0 THEN acc ELSE OwnMerges(log, n + 1, depth - 1, acc))
    ELSE IF log[n].ev = "merge_levels" /\ depth = 0
         THEN OwnMerges(log, n + 1, depth, Append(acc, <<log[n].a, log[n].b>>))
    ELSE OwnMerges(log, n + 1, depth, acc)

\* the level merge_down(idx) merges into: the one found, or the level that
\* grow adds below the levels the call found (their run counts are rc)
MergeBase(e) == IF e.b = -1 THEN Len(e.rc) ELSE e.b

\* C23: every merge_down(i) of an append merges the pairs (base-1 into base),
\* ..., (i into i+1) in this order and no other pair; every merge_levels is
\* followed at once by enforce_tombstone_maximum on its base level; and when
\* merge_down(i) returns level i holds no run.
C23_MergeDownOrder ==
    \A n \in 1..Len(gh.log) :
        LET e == gh.log[n]
        IN /\ e.ev = "merge_down" =>
                OwnMerges(gh.log, n + 1, 0, <<>>)
                   = [m \in 1..(MergeBase(e) - e.a) |-> <<MergeBase(e) - m + 1, MergeBase(e) - m>>]
           /\ e.ev = "merge_levels" =>
                /\ n < Len(gh.log)
                /\ gh.log[n + 1].ev = "enforce_tombstone_maximum"
                /\ gh.log[n + 1].a = e.a
           /\ e.ev = "return" => e.rc[e.a + 1] = 0

\* an append whose merge_down(0) merged level 1 into level 2 and then level 0
\* into level 1
C23_Witness ==
    \E n \in 1..Len(gh.log) :
        /\ gh.log[n].ev = "merge_down" /\ gh.log[n].a = 0
        /\ OwnMerges(gh.log, n + 1, 0, <<>>) = <<<<2, 1>>, <<1, 0>>>>

\* the levels below idx that can take a run, from the run counts rc
CanAbsorb(rc, idx) == {j \in (idx + 1)..(Len(rc) - 1) : rc[j + 1] < ScaleFactor}

\* the levels j below idx whose records and those of level j-1 fit level j
CanAbsorbLeveling(lv, idx) ==
    {j \in (idx + 1)..(Len(lv) - 1) :
        get_record_cnt(lv[j + 1]) + get_record_cnt(lv[j]) <= calc_level_record_capacity(j)}

\* C24: the level merge_down(i) merges into is the shallowest level below i
\* that can absorb (fewer than ScaleFactor runs; under leveling, its records
\* and the incoming ones fit its capacity), and grow is called exactly when
\* no level below i can absorb.
C24_ShallowestBase ==
    /\ \A n \in 1..Len(gh.log) :
        LET e == gh.log[n]
            abs == CanAbsorb(e.rc, e.a)
        IN /\ e.ev = "merge_down" =>
                /\ abs # {} => (e.b \in abs /\ \A j \in abs : e.b <= j)
                /\ abs = {} => e.b = -1
                /\ gh.log[n + 1].ev = "grow" <=> abs = {}
           /\ e.ev = "grow" => (n > 1 /\ gh.log[n - 1].ev = "merge_down" /\ e.rc = gh.log[n - 1].rc)
    /\ \A idx \in 0..(Len(levels) - 1) :
        LET abs == CanAbsorbLeveling(levels, idx)
            j == find_mergable_level_leveling(levels, idx)
        IN IF abs = {} THEN j = -1 ELSE (j \in abs /\ \A x \in abs : j <= x)

\* an append whose merge_down(0) found level 1 full and level 2 not, and
\* chose level 2 without growing the tree
C24_Witness ==
    \E n \in 1..Len(gh.log) :
        /\ gh.log[n].ev = "merge_down" /\ gh.log[n].a = 0 /\ gh.log[n].b = 2
        /\ gh.log[n].rc[2] = ScaleFactor
        /\ gh.log[n + 1].ev = "merge_levels"

\* C25: no level ever holds more than the run cap (the scale factor) of
\* runs: the assertions m_run_cnt < m_cap of append_mem_table and
\* append_merged_runs never fail, at every call of the compaction the run
\* counts are within the cap, and so they are when append returns, merges
\* started by the tombstone maximum included.
C25_RunCap ==
    /\ gh.asrt \cap {"append_mem_table", "append_merged_runs"} = {}
    /\ \A l \in 1..Len(levels) : get_run_count(levels[l]) <= ScaleFactor
    /\ \A n \in 1..Len(gh.log) :
           \A l \in 1..Len(gh.log[n].rc) : gh.log[n].rc[l] <= ScaleFactor

\* an append whose flush found level 0 full, merged it down, and whose
\* tombstone maximum then started a further merge_down, leaving a full level
C25_Witness ==
    /\ \E n \in 1..(Len(gh.log) - 1) :
           /\ gh.log[n].ev = "enforce_tombstone_maximum"
           /\ gh.log[n + 1].ev = "merge_down"
    /\ gh.log # <<>> /\ gh.log[1].ev = "merge_down"
    /\ \E l \in 1..Len(levels) : get_run_count(levels[l]) = ScaleFactor

\* C26: after every append returns, the record count of every level l is
\* at most cap(l) = C * s^(l+1), under tiering and under leveling, merges
\* forced by the tombstone maximum included.
C26_LevelCapacity ==
    \A l \in 1..Len(levels) :
        get_record_cnt(levels[l]) <= calc_level_record_capacity(l - 1)

\* a tree under leveling whose second level is filled to its capacity by the
\* merges of the append that just returned
C26_Witness ==
    /\ gh.leveling
    /\ Len(levels) >= 2
    /\ get_record_cnt(levels[2]) = calc_level_record_capacity(1)
    /\ \E n \in 1..Len(gh.log) : gh.log[n].ev = "merge_levels" /\ gh.log[n].a = 1

\* C27: the assertion of grow() holds: whenever a level is added below an
\* existing deepest level, run 0 of that level holds no tombstone, for every
\* workload that deletes only records inserted earlier, each at most once.
C27_GrowAssertion ==
    (gh.legal /\ gh.uniq /\ ~gh.reins) => "grow" \notin gh.asrt

C30_BusyWaitExits ==
    /\ [](~(unit.memtable_1_merging /\ unit.memtable_2_merging))
    /\ [](memtable(unit) # "null")
    /\ (unit.pc = "append_wait") ~> (unit.pc = "idle" /\ unit.last = "append")
    /\ (unit.pc = "sample_wait") ~> (unit.pc = "idle" /\ unit.last = "range_sample")

\* a range_sample call that left its wait loop on a tree that took appends
\* through the wait loop of append, a flush included
C30_Witness ==
    /\ unit.kind = "memtables"
    /\ unit.last = "range_sample"
    /\ smp.pc = "loop"
    /\ gh.appends = MaxWaitAppends
    /\ levels # <<>>

\* C33: a MemTable append that returns 0 leaves the memtable as it was
\* (records, record count, tombstone count, filter and tail), so the tail
\* stays within the buffer and never runs ahead of the slots written.
C33_RefusedAppendNoChange ==
    /\ [](unit.kind = "MemTable" =>
            /\ unit.obj.tail <= MemCap
            /\ unit.obj.tail = Len(unit.obj.data))
    /\ [][(/\ unit.kind = "MemTable"
           /\ unit'.op.name = "append"
           /\ unit'.n = unit.n + 1
           /\ unit'.ret = 0) => unit'.obj = unit.obj]_vars

\* C34: check_tombstone(key, val) on a memtable returns, and returns true
\* exactly when the memtable holds a tombstone with that key and value (a
\* record with that key and value that is no tombstone does not count).
C34_CheckTombstone ==
    (unit.kind \in {"MemTable", "BTree"} /\ unit.op.name = "check_tombstone") =>
        /\ unit.ret # -1
        /\ (unit.ret = 1) <=>
              \E i \in 1..Len(UnitRecords) :
                  record_match(UnitRecords[i], unit.op.k, unit.op.v, TRUE)

\* C35: the tombstone filters have no false negatives: the key of every
\* tombstone stored in a run is in the bloom filter of that run, and the key
\* of every tombstone in the memtable is in the filter of the memtable.
C35_NoFalseNegatives ==
    /\ \A i \in 1..Len(levels) : \A j \in 1..Len(levels[i]) :
          \A n \in 1..Len(levels[i][j].data) :
              is_tombstone(levels[i][j].data[n]) => levels[i][j].data[n].key \in levels[i][j].bf
    /\ \A n \in 1..Len(mt.data) :
          is_tombstone(mt.data[n]) => mt.data[n].key \in mt.filter

\* a run built by a flush and a run built by a merge hold a tombstone each,
\* and so does the memtable
C35_Witness ==
    /\ Len(levels) >= 2
    /\ \E j \in 1..Len(levels[1]) : \E n \in 1..Len(levels[1][j].data) :
          is_tombstone(levels[1][j].data[n])
    /\ \E j \in 1..Len(levels[2]) : \E n \in 1..Len(levels[2][j].data) :
          is_tombstone(levels[2][j].data[n])
    /\ \E n \in 1..Len(mt.data) : is_tombstone(mt.data[n])

\* C37: InMemRun::delete_record(key, val) changes nothing in the runs but
\* the delete bit of one record that matches (key, val) and is no tombstone
\* (order, record counts and tombstone counts stay), and it returns true
\* only when a run holds such a record.
C37_DeleteRecordFrame ==
    unit.kind = "delete" =>
        /\ \/ levels = unit.lv
           \/ \E p \in LevelMatches(unit.lv, unit.key, unit.value) :
                 levels = [unit.lv EXCEPT ![p[1]][p[2]].data[p[3]] = set_delete_status(@)]
        /\ unit.in_run => LevelMatches(unit.lv, unit.key, unit.value) # {}

\* the runs of a level that hold a record
NonEmptyRuns(runs) == SelectSeq(runs, LAMBDA r : r.data # <<>>)

\* C39: a run without records takes no part in a merge (the merge of a level
\* is the merge of its runs that hold a record, whatever the buffer of an
\* empty run contains), and the sample range of a run without records is
\* empty.
C39_EmptyRunHandled ==
    /\ \A l \in 1..Len(levels) :
          levels[l] # <<>> =>
              \A g \in MergeReads(levels[l]) :
                  InMemRun_from_runs(levels[l], g) = InMemRun_from_runs(NonEmptyRuns(levels[l]), g)
    /\ smp.pc = "loop" =>
          \A d \in 1..Len(smp.ranges) :
              LET rid == smp.ranges[d].rid
              IN levels[rid.level_idx + 1][rid.run_idx + 1].data = <<>> =>
                    smp.ranges[d].high = smp.ranges[d].low

\* the number of records on the leaf pages first..last
RECURSIVE RecordsOnPages(_, _, _)
RecordsOnPages(leaves, first, last) ==
    IF first > last THEN 0
    ELSE Len(leaves[first - FirstLeafPnum + 1]) + RecordsOnPages(leaves, first + 1, last)

\* C40: the record count of a sample range over the pages start..stop is
\* the number of records stored on these pages, also when start = stop.
C40_RangeRecordCount ==
    (unit.kind = "isam" /\ unit.op = "create" /\ unit.range # NoRange) =>
        unit.range.record_count =
            RecordsOnPages(unit.leaves, unit.range.start_page, unit.range.stop_page)

\* the number of records with key k in the occupied slots of runs
RECURSIVE CountInSlots(_, _, _)
CountInSlots(runs, i, k) ==
    IF i > Len(runs) THEN 0
    ELSE (IF runs[i] = NoRun THEN 0 ELSE Cardinality({n \in 1..Len(runs[i]) : runs[i][n] = k}))
         + CountInSlots(runs, i + 1, k)

\* C38: after a merge_with that returned 1 the level holds one run, which
\* contains the records of every run slot occupied before and the incoming
\* records, and record_count is the record count of that run; after a
\* merge_with that returned 0 runs, run_count and record_count are as before.
C38_MergeWith ==
    (unit.kind = "isamlevel" /\ unit.op = "merge_with") =>
        IF unit.ret = 1
        THEN /\ unit.level.run_count = 1
             /\ Cardinality({i \in 1..unit.level.run_capacity : unit.level.runs[i] # NoRun}) = 1
             /\ unit.level.runs[1] # NoRun
             /\ unit.level.record_count = Len(unit.level.runs[1])
             /\ \A k \in IsamKeys :
                   CountInSlots(unit.level.runs, 1, k) =
                       CountInSlots(unit.pre.runs, 1, k) + CountInSlots(<<unit.incoming>>, 1, k)
        ELSE unit.level = unit.pre

\* the number of records of run r whose key satisfies P
CountKeys(r, P(_)) == Cardinality({i \in 1..Len(r.data) : P(r.data[i].key)})

\* C36: for a run that holds records, get_lower_bound(key) is the number of
\* records with a smaller key and get_upper_bound(key) the number of records
\* with a key that is not larger, whatever the record count; so for
\* low <= high the positions low_pos .. high_pos - 1 are exactly those of the
\* records with a key in [low, high], and high_pos >= low_pos.
C36_RunBounds ==
    (unit.kind = "run" /\ unit.op = "get_sample_ranges") =>
        /\ unit.low_pos = CountKeys(unit.run, LAMBDA k : k < unit.low)
        /\ unit.high_pos = CountKeys(unit.run, LAMBDA k : k <= unit.high)
        /\ unit.high_pos >= unit.low_pos
        /\ \A i \in 1..Len(unit.run.data) :
              (unit.low_pos < i /\ i <= unit.high_pos)
                  <=> (unit.low <= unit.run.data[i].key /\ unit.run.data[i].key <= unit.high)

\* a run whose index has three levels and a last node that is not full, and
\* a range that starts and ends inside the run
C36_Witness ==
    /\ unit.kind = "run"
    /\ unit.op = "get_sample_ranges"
    /\ Len(unit.run.data) = MaxIndexRecs
    /\ Len(build_internal_levels(unit.run.data).nodes) >= 6
    /\ unit.low_pos > inmem_isam_leaf_fanout
    /\ unit.high_pos > unit.low_pos
    /\ unit.high_pos < Len(unit.run.data)

\* C31: whatever the interleaving of the appends of several threads, no two
\* appends that returned 1 since the last truncate hold the same slot, and
\* there are no more of them than the capacity.
C31_UniqueSlots ==
    unit.kind = "conc" =>
        /\ \A i \in 1..Len(unit.wins), j \in 1..Len(unit.wins) :
              i # j => unit.wins[i] # unit.wins[j]
        /\ Len(unit.wins) <= ConcCap

\* C32: a reader that observes record count n and reads index i < n gets,
\* when it takes what it got for a valid record, a record that was written
\* in full since the last truncate.
C32_ReadsWritten ==
    (unit.kind = "conc" /\ unit.read.n > 0 /\ unit.read.valid) => unit.read.got = "rec"

====
